---------------------------- MODULE Spec2Model ----------------------------
(***************************************************************************)
(* Monad migration MCP server: the tool registry and dispatcher, the seven *)
(* tool modules, the rule-based analyzers of the validation module and the *)
(* configuration table they read.                                          *)
(*                                                                         *)
(* Text.  Every JavaScript string is modelled as a sequence of segments    *)
(* (TLA+ strings).  A string supplied by the caller is the sequence of its *)
(* whitespace-separated words, with the line break "\n" and the            *)
(* parenthesis "(" as words of their own; a report is the sequence of the  *)
(* template's literal chunks and of the interpolated values, in order.     *)
(* Long literal chunks of a template that hold no interpolation are        *)
(* abbreviated ("..."), a backquote of the source is written as an         *)
(* apostrophe and the check and cross marks as "(pass)" and "(fail)".      *)
(***************************************************************************)
EXTENDS Integers, Sequences, FiniteSets, TLC

VARIABLES
    pc,          \* position of the start-up code (constructor, run)
    instances,   \* the tool objects created by initializeTools, in order
    tools,       \* MonadMigrationServer.tools: the Map, as its entries in insertion order
    regPos,      \* position of the registration loops: <<module index, descriptor index>>
    overwrites,  \* number of Map.set calls that hit a key already present
    handlers,    \* request schemas a handler is installed for
    connected,   \* the transport is connected
    clock,       \* the host's clock (what new Date() would read)
    requests,    \* requests received so far, by arrival order
    status,      \* per request: "pending", "handled" or "delivered"
    responses,   \* per request: the handler's outcome
    executed,    \* per request: the executeTool call made for it (or none)
    localNonces,          \* emitted MonadNonceManager.localNonces: address -> nonce
    pendingTransactions,  \* emitted MonadNonceManager.pendingTransactions: address -> set of nonces
    chainNonces,          \* what provider.getTransactionCount(address) reads on the chain
    nonceCalls            \* the getNextNonce calls made on the emitted manager, and how far each is

\* the state of a program that runs the emitted MonadNonceManager
managed == <<localNonces, pendingTransactions, chainNonces, nonceCalls>>

vars == <<pc, instances, tools, regPos, overwrites, handlers, connected, clock,
          requests, status, responses, executed, managed>>

\* no emitted program is running
NoNonceManager ==
    /\ localNonces = <<>>
    /\ pendingTransactions = <<>>
    /\ chainNonces = <<>>
    /\ nonceCalls = <<>>

-----------------------------------------------------------------------------
(* Bounds of the model *)

\* number of requests the transport delivers in one run
MaxRequests == 2

-----------------------------------------------------------------------------
(* Sequences and text *)

RECURSIVE Flatten(_)
\* concatenation of a sequence of sequences (template literal made of parts)
Flatten(ss) == IF ss = <<>> THEN <<>> ELSE Head(ss) \o Flatten(Tail(ss))

RECURSIVE Join(_, _)
\* Array.prototype.join(sep) over already rendered items
Join(items, sep) ==
    IF items = <<>> THEN <<>>
    ELSE IF Len(items) = 1 THEN items[1]
    ELSE items[1] \o sep \o Join(Tail(items), sep)

\* Array.prototype.filter(...).length
CountIf(P(_), s) == Cardinality({i \in 1..Len(s) : P(s[i])})

\* the words of m stand in s from position i on
IsPrefixAt(s, m, i) == /\ i + Len(m) - 1 <= Len(s)
                       /\ \A k \in 1..Len(m) : s[i + k - 1] = m[k]

\* String.prototype.includes for a marker given as a sequence of words
Includes(s, m) == \E i \in 1..(Len(s) + 1) : IsPrefixAt(s, m, i)

RECURSIVE SplitOn(_, _)
\* String.prototype.split(sep): always at least one piece
SplitOn(s, sep) ==
    IF \A i \in 1..Len(s) : s[i] # sep THEN <<s>>
    ELSE LET k == CHOOSE i \in 1..Len(s) :
                      s[i] = sep /\ \A j \in 1..(i - 1) : s[j] # sep
         IN  <<SubSeq(s, 1, k - 1)>> \o SplitOn(SubSeq(s, k + 1, Len(s)), sep)

-----------------------------------------------------------------------------
(* bigint arithmetic: little-endian limbs in base 10^4, no leading zero limb *)

LimbBase == 10 ^ 4

RECURSIVE BigInt(_)
\* BigInt(n) for a number n
BigInt(n) == IF n = 0 THEN <<>> ELSE <<n % LimbBase>> \o BigInt(n \div LimbBase)

RECURSIVE BigTrim(_)
BigTrim(a) == IF a # <<>> /\ a[Len(a)] = 0 THEN BigTrim(SubSeq(a, 1, Len(a) - 1)) ELSE a

RECURSIVE BigAddC(_, _, _)
BigAddC(a, b, c) ==
    IF a = <<>> /\ b = <<>> THEN (IF c = 0 THEN <<>> ELSE <<c>>)
    ELSE LET x == IF a = <<>> THEN 0 ELSE Head(a)
             y == IF b = <<>> THEN 0 ELSE Head(b)
             t == x + y + c
         IN  <<t % LimbBase>> \o BigAddC(IF a = <<>> THEN <<>> ELSE Tail(a),
                                         IF b = <<>> THEN <<>> ELSE Tail(b),
                                         t \div LimbBase)

\* bigint a + b
BigAdd(a, b) == BigTrim(BigAddC(a, b, 0))

RECURSIVE BigMulLimb(_, _, _)
BigMulLimb(a, m, c) ==
    IF a = <<>> THEN (IF c = 0 THEN <<>> ELSE <<c>>)
    ELSE LET t == Head(a) * m + c
         IN  <<t % LimbBase>> \o BigMulLimb(Tail(a), m, t \div LimbBase)

RECURSIVE BigMul(_, _)
\* bigint a * b
BigMul(a, b) ==
    IF b = <<>> THEN <<>>
    ELSE BigAdd(BigTrim(BigMulLimb(a, Head(b), 0)), BigTrim(<<0>> \o BigMul(a, Tail(b))))

Pad4(n) == IF n < 10 THEN "000" \o ToString(n)
           ELSE IF n < 100 THEN "00" \o ToString(n)
           ELSE IF n < 1000 THEN "0" \o ToString(n)
           ELSE ToString(n)

RECURSIVE BigLowDigits(_)
BigLowDigits(a) == IF a = <<>> THEN "" ELSE BigLowDigits(Tail(a)) \o Pad4(Head(a))

\* bigint.toString(): decimal digits, most significant limb unpadded
BigToString(a) ==
    IF a = <<>> THEN "0"
    ELSE ToString(a[Len(a)]) \o BigLowDigits(SubSeq(a, 1, Len(a) - 1))

-----------------------------------------------------------------------------
(* Configuration table: MonadNetworkConfig *)

TESTNET ==
    [chainId     |-> 10143,
     name        |-> "Monad Testnet",
     currency    |-> "MON",
     rpcUrl      |-> "https://testnet-rpc.monad.xyz",
     explorerUrl |-> "https://testnet.monadexplorer.com",
     faucetUrl   |-> "https://faucet.monad.xyz",
     testnetHub  |-> "https://testnet.monad.xyz"]

\* a table whose default gas price leaves the priority fee out
GasConfigBaseOnly ==
    [baseFeePerGas        |-> BigMul(BigInt(50), BigInt(10 ^ 9)),
     maxPriorityFeePerGas |-> BigMul(BigInt(2), BigInt(10 ^ 9)),
     defaultGasPrice      |-> BigMul(BigInt(50), BigInt(10 ^ 9)),
     standardTransferGas  |-> BigInt(21000)]

GAS_CONFIG ==
    [baseFeePerGas        |-> BigMul(BigInt(50), BigInt(10 ^ 9)),
     maxPriorityFeePerGas |-> BigMul(BigInt(2), BigInt(10 ^ 9)),
     defaultGasPrice      |-> BigMul(BigInt(52), BigInt(10 ^ 9)),
     standardTransferGas  |-> BigInt(21000)]

\* the entries of CONTRACTS in insertion order
CONTRACTS ==
    << [name |-> "CreateX",                      address |-> "0xba5Ed099633D3B313e4D5F7bdc1305d3c28ba5Ed"],
       [name |-> "FoundryDeterministicDeployer", address |-> "0x4e59b44847b379578588920ca78fbf26c0b4956c"],
       [name |-> "SafeSingletonFactory",         address |-> "0x914d7Fec6aaC8cd542e72Bca78B30650d45643d7"],
       [name |-> "EntryPointV06",                address |-> "0x5FF137D4b0FDCD49DcA30c7CF57E578a026d2789"],
       [name |-> "EntryPointV07",                address |-> "0x0000000071727De22E5E9d8BAf0edAc6f37da032"],
       [name |-> "Multicall3",                   address |-> "0xcA11bde05977b3631167028862bE2a173976CA11"],
       [name |-> "Permit2",                      address |-> "0x000000000022d473030f116ddee9f6b43ac78ba3"],
       [name |-> "UniswapV2Factory",             address |-> "0x733e88f248b742db6c14c0b1713af5ad7fdd59d0"],
       [name |-> "UniswapV3Factory",             address |-> "0x961235a9020b05c44df1026d956d1f4d78014276"],
       [name |-> "UniswapV2Router02",            address |-> "0xfb8e1c3b833f9e67a71c859a132cf783b645e436"],
       [name |-> "UniswapUniversalRouter",       address |-> "0x3ae6d8a282d67893e17aa70ebffb33ee5aa65893"],
       [name |-> "WrappedMonad",                 address |-> "0x760AfE86e5de5fa0Ee542fc7B7B713e1c5425701"] >>

\* MonadNetworkConfig.CONTRACTS.<name>
ContractAddress(n) == (CHOOSE e \in {CONTRACTS[i] : i \in 1..Len(CONTRACTS)} : e.name = n).address

OPTIMIZATION_CONSTANTS ==
    [MAX_BLOCK_RANGE_LOGS    |-> 100,
     RECOMMENDED_BLOCK_RANGE |-> 10,
     MAX_CONTRACT_SIZE       |-> 128 * 1024,
     BLOCK_TIME_MS           |-> 500,
     RECOMMENDED_BATCH_SIZE  |-> 50,
     MAX_BATCH_SIZE          |-> 100]

INDEXER_CONFIGS ==
    [ENVIO   |-> [networkId |-> 10143],
     GOLDSKY |-> [networkIdentifier |-> "monad-testnet", mirrorDatasetName |-> "monad_testnet"]]

STATIC_RPC_RESPONSES ==
    [eth_chainId              |-> "0x27a7",
     eth_gasPrice             |-> "0xc1dcd6500",
     eth_maxPriorityFeePerGas |-> "0x77359400"]

-----------------------------------------------------------------------------
(* Operation descriptors: the 'tools' field of each module, as constructed.  *)
(* A descriptor keeps its name, its properties in declaration order (field,  *)
(* JSON type, enum values if any) and its 'required' list.                   *)

Prop(f, t) == [field |-> f, type |-> t, enum |-> <<>>]
EnumProp(f, e) == [field |-> f, type |-> "string", enum |-> e]
Descriptor(n, props, req) == [name |-> n, properties |-> props, required |-> req]

ContractMigrationTools ==
    << Descriptor("migrate_contract_deployment",
                  << Prop("originalCode", "string"),
                     EnumProp("contractType", <<"token", "nft", "defi", "dao", "general">>),
                     EnumProp("optimizationLevel", <<"basic", "advanced", "aggressive">>) >>,
                  <<"originalCode", "contractType">>),
       Descriptor("optimize_contract_size",
                  << Prop("contractCode", "string"), Prop("targetSize", "number") >>,
                  <<"contractCode">>),
       Descriptor("add_monad_gas_optimizations",
                  << Prop("contractCode", "string"), Prop("functions", "array") >>,
                  <<"contractCode">>),
       Descriptor("generate_monad_deployment_script",
                  << Prop("contractName", "string"), Prop("constructorArgs", "array"),
                     Prop("useCreateX", "boolean") >>,
                  <<"contractName">>) >>

FrontendMigrationTools ==
    << Descriptor("migrate_web3_config",
                  << Prop("originalConfig", "string"),
                     EnumProp("framework", <<"react", "vue", "angular", "vanilla">>) >>,
                  <<"originalConfig", "framework">>),
       Descriptor("optimize_rpc_calls",
                  << Prop("code", "string"),
                     EnumProp("library", <<"viem", "ethers", "web3js">>) >>,
                  <<"code", "library">>),
       Descriptor("implement_batch_calls",
                  << Prop("functions", "array") >>,
                  <<"functions">>) >>

\* a gas module whose first operation takes the name of a frontend operation
GasOptimizationToolsClashing ==
    << Descriptor("optimize_rpc_calls", << Prop("code", "string") >>, <<"code">>),
       Descriptor("implement_gas_limit_strategy",
                  << Prop("transactionTypes", "array") >>, <<"transactionTypes">>) >>

GasOptimizationTools ==
    << Descriptor("optimize_gas_estimation", << Prop("code", "string") >>, <<"code">>),
       Descriptor("implement_gas_limit_strategy",
                  << Prop("transactionTypes", "array") >>, <<"transactionTypes">>) >>

RPCOptimizationTools ==
    << Descriptor("implement_multicall_pattern", << Prop("calls", "array") >>, <<"calls">>),
       Descriptor("optimize_concurrent_calls",
                  << Prop("originalCode", "string") >>, <<"originalCode">>) >>

\* an indexer module that requires of setup_envio_indexer its address only
IndexerMigrationToolsAddressOnly ==
    << Descriptor("setup_envio_indexer",
                  << Prop("contractAddress", "string"), Prop("events", "array") >>,
                  <<"contractAddress">>),
       Descriptor("configure_goldsky_subgraph",
                  << Prop("contractName", "string"), Prop("events", "array") >>,
                  <<"contractName", "events">>) >>

IndexerMigrationTools ==
    << Descriptor("setup_envio_indexer",
                  << Prop("contractAddress", "string"), Prop("events", "array") >>,
                  <<"contractAddress", "events">>),
       Descriptor("configure_goldsky_subgraph",
                  << Prop("contractName", "string"), Prop("events", "array") >>,
                  <<"contractName", "events">>) >>

\* a module that declares the first of its two operations only
TransactionOptimizationToolsFirstOnly ==
    << Descriptor("implement_concurrent_transactions",
                  << Prop("transactionCount", "number") >>, <<"transactionCount">>) >>

TransactionOptimizationTools ==
    << Descriptor("implement_concurrent_transactions",
                  << Prop("transactionCount", "number") >>, <<"transactionCount">>),
       Descriptor("optimize_nonce_management",
                  << EnumProp("walletType", <<"ethers", "viem">>) >>, <<"walletType">>) >>

ValidationTools ==
    << Descriptor("validate_monad_migration",
                  << EnumProp("projectType", <<"defi", "nft", "dao", "gaming", "general">>),
                     Prop("codeBase", "string") >>,
                  <<"projectType", "codeBase">>),
       Descriptor("check_gas_optimization", << Prop("code", "string") >>, <<"code">>),
       Descriptor("generate_migration_checklist",
                  << EnumProp("complexity", <<"simple", "moderate", "complex">>) >>,
                  <<"complexity">>) >>

\* new <Class>(): the object with its 'tools' field initialised
NewTool(cls, ts) == [cls |-> cls, tools |-> ts]

\* the array literal of initializeTools: the seven modules in registration order
NewToolInstances ==
    << NewTool("ContractMigrationTool", ContractMigrationTools),
       NewTool("FrontendMigrationTool", FrontendMigrationTools),
       NewTool("GasOptimizationTool", GasOptimizationTools),
       NewTool("RPCOptimizationTool", RPCOptimizationTools),
       NewTool("IndexerMigrationTool", IndexerMigrationTools),
       NewTool("TransactionOptimizationTool", TransactionOptimizationTools),
       NewTool("ValidationTool", ValidationTools) >>

\* <module>.getTools(): the module's own 'tools' array
getTools(inst) == inst.tools

-----------------------------------------------------------------------------
(* JavaScript values of the request arguments, tagged by their type *)

StrVal(words) == [t |-> "string", v |-> words]
\* an array of strings, each the sequence of its words
ArrVal(items) == [t |-> "array", v |-> items]
NumVal(n)     == [t |-> "number", v |-> n]
BoolVal(b)    == [t |-> "boolean", v |-> b]
Undefined     == [t |-> "undefined", v |-> <<>>]

\* args.<field> of an arguments object (the sequence of its entries): undefined
\* when the object has no such field
Field(args, f) ==
    IF \E i \in 1..Len(args) : args[i].k = f
    THEN (CHOOSE e \in {args[i] : i \in 1..Len(args)} : e.k = f).v
    ELSE Undefined

\* a destructuring without the default: an omitted field stays undefined
FieldWithoutDefault(args, f, d) == Field(args, f)

\* destructuring with a default: '{ f = dflt } = args'
FieldOr(args, f, dflt) == IF Field(args, f) = Undefined THEN dflt ELSE Field(args, f)

\* template interpolation ${value} of a value (String(value))
Interp(val) ==
    CASE val.t = "string"    -> val.v
      [] val.t = "number"    -> <<ToString(val.v)>>
      [] val.t = "boolean"   -> <<IF val.v THEN "true" ELSE "false">>
      [] val.t = "array"     -> Join(val.v, <<",">>)
      [] val.t = "undefined" -> <<"undefined">>

\* JavaScript truthiness of a value
Truthy(val) ==
    CASE val.t = "string"    -> val.v # <<>>
      [] val.t = "number"    -> val.v # 0
      [] val.t = "boolean"   -> val.v
      [] val.t = "array"     -> TRUE
      [] val.t = "undefined" -> FALSE

-----------------------------------------------------------------------------
(* Outcomes of a handler *)

TextContent(text) == [type |-> "text", text |-> text]
\* return { content: [{ type: "text", text }] }
Report(text) == [kind |-> "result", content |-> <<TextContent(text)>>]
\* throw new Error(message)
Throw(message) == [kind |-> "error", message |-> message]
\* a method call on a value that has no such method: reading the method off
\* undefined fails, calling a method the value lacks fails with the name of the
\* variable
TypeError(val, field, method) ==
    IF val = Undefined
    THEN Throw(<<"TypeError: ", "Cannot read properties of undefined (reading '", method, "')">>)
    ELSE Throw(<<"TypeError: ", field, ".", method, " is not a function">>)
NoResponse == [kind |-> "none"]
NoCall == [module |-> "none"]

-----------------------------------------------------------------------------
(* Words of caller-supplied code and the substring relation between them *)

\* pairs <<w, m>>: word w holds m as a proper substring
ProperSubstrings ==
    {<<"eth_estimateGas", "estimateGas">>, <<"52000000000", "52">>}

\* pairs <<w, m>>: w holds m when letter case is ignored, and not otherwise
CaseInsensitiveSubstrings ==
    {<<"Multicall3", "multicall">>, <<"Batch", "batch">>}

\* words holding a decimal digit (the class \d)
DigitWords == {"10143", "52000000000", "52", "10**9", "Multicall3", "21000"}

\* word w holds the text m
WordHolds(w, m) == w = m \/ <<w, m>> \in ProperSubstrings

\* word w holds the text m, ignoring case (regex flag i)
WordHoldsI(w, m) == WordHolds(w, m) \/ <<w, m>> \in CaseInsensitiveSubstrings

\* String.prototype.includes(marker): a one-word marker is held by some word;
\* a marker of several words stands in the text word by word
StrIncludes(s, marker) ==
    IF Len(marker) = 1 THEN \E i \in 1..Len(s) : WordHolds(s[i], marker[1])
    ELSE Includes(s, marker)

\* positions i < j of s lie on one line (the regex '.' matches no line break)
SameLine(s, i, j) == \A k \in i..j : s[k] # "\n"

\* value.includes(marker) for an argument value: a string or an array
ValIncludes(val, marker) ==
    IF val.t = "string" THEN StrIncludes(val.v, marker)
    ELSE \E i \in 1..Len(val.v) : val.v[i] = marker

\* the value has an 'includes' method
HasIncludes(val) == val.t \in {"string", "array"}

-----------------------------------------------------------------------------
(* ValidationTool *)

\* Math.round(p / q * 100) for 0 <= p <= q, q > 0: nearest integer, halves up
\* (the floating-point error of p / q * 100 is far below one half)
RoundPercent(p, q) == (2 * 100 * p + q) \div (2 * q)

PassMark == "(pass)"
FailMark == "(fail)"
Mark(passed) == IF passed THEN PassMark ELSE FailMark

\* a 'checks' array whose last check looks for its marker only
ValidationChecksPresenceOnly(codeBase) ==
    << [name |-> "Network Configuration",
        passed |-> ValIncludes(codeBase, <<ToString(TESTNET.chainId)>>),
        description |-> "Uses correct Monad chain ID (10143)"],
       [name |-> "Gas Price Optimization",
        passed |-> \/ ValIncludes(codeBase, <<"52000000000">>)
                   \/ ValIncludes(codeBase, <<"52", "*", "10**9">>),
        description |-> "Uses hardcoded gas price instead of RPC calls"],
       [name |-> "Multicall Integration",
        passed |-> \/ ValIncludes(codeBase, <<"multicall">>)
                   \/ ValIncludes(codeBase, <<"Multicall3">>),
        description |-> "Implements multicall for batch operations"],
       [name |-> "Concurrent Processing",
        passed |-> ValIncludes(codeBase, <<"Promise.all">>),
        description |-> "Uses concurrent patterns for better performance"],
       [name |-> "Gas Limit Management",
        passed |-> ValIncludes(codeBase, <<"gasLimit">>),
        description |-> "Uses explicit gas limits instead of estimation"] >>

\* the 'checks' array of validateMonadMigration
ValidationChecks(codeBase) ==
    << [name |-> "Network Configuration",
        passed |-> ValIncludes(codeBase, <<ToString(TESTNET.chainId)>>),
        description |-> "Uses correct Monad chain ID (10143)"],
       [name |-> "Gas Price Optimization",
        passed |-> \/ ValIncludes(codeBase, <<"52000000000">>)
                   \/ ValIncludes(codeBase, <<"52", "*", "10**9">>),
        description |-> "Uses hardcoded gas price instead of RPC calls"],
       [name |-> "Multicall Integration",
        passed |-> \/ ValIncludes(codeBase, <<"multicall">>)
                   \/ ValIncludes(codeBase, <<"Multicall3">>),
        description |-> "Implements multicall for batch operations"],
       [name |-> "Concurrent Processing",
        passed |-> ValIncludes(codeBase, <<"Promise.all">>),
        description |-> "Uses concurrent patterns for better performance"],
       [name |-> "Gas Limit Management",
        passed |-> /\ ValIncludes(codeBase, <<"gasLimit">>)
                   /\ ~ValIncludes(codeBase, <<"estimateGas">>),
        description |-> "Uses explicit gas limits instead of estimation"] >>

\* a table read one place too far
ValidationRecommendationOffByOne(i) ==
    CASE i = 5 -> "Update network configuration to use Monad testnet (Chain ID: 10143)"
      [] i = 1 -> "Replace dynamic gas price calls with hardcoded value (52 gwei)"
      [] i = 2 -> "Implement Multicall3 for batching contract reads"
      [] i = 3 -> "Add concurrent processing with Promise.all for better performance"
      [] i = 4 -> "Use explicit gas limits instead of gas estimation"

\* the recommendation pushed when check i has not passed
ValidationRecommendation(i) ==
    CASE i = 1 -> "Update network configuration to use Monad testnet (Chain ID: 10143)"
      [] i = 2 -> "Replace dynamic gas price calls with hardcoded value (52 gwei)"
      [] i = 3 -> "Implement Multicall3 for batching contract reads"
      [] i = 4 -> "Add concurrent processing with Promise.all for better performance"
      [] i = 5 -> "Use explicit gas limits instead of gas estimation"

\* a score taken over one check more than the list holds
ValidationScoreOverSix(checks) ==
    RoundPercent(CountIf(LAMBDA c : c.passed, checks), Len(checks) + 1)

\* const score = Math.round((passedChecks / checks.length) * 100)
ValidationScore(checks) ==
    RoundPercent(CountIf(LAMBDA c : c.passed, checks), Len(checks))

ValidationText(projectType, checks) ==
    LET passedChecks == CountIf(LAMBDA c : c.passed, checks)
        score == ValidationScore(checks)
        failed == SelectSeq([i \in 1..Len(checks) |-> i], LAMBDA i : ~checks[i].passed)
        recommendations == [k \in 1..Len(failed) |-> ValidationRecommendation(failed[k])]
    IN  Flatten(<<
          <<"## Monad Migration Validation Report", "\n\n",
            "### Migration Score: ", ToString(score), "% (", ToString(passedChecks), "/",
            ToString(Len(checks)), " checks passed)", "\n\n",
            "### Validation Results:", "\n">>,
          Join([i \in 1..Len(checks) |->
                   <<Mark(checks[i].passed), " **", checks[i].name, "**: ",
                     checks[i].description>>], <<"\n">>),
          <<"\n\n", "### Project Type: ">>, Interp(projectType), <<"\n">>,
          IF projectType = StrVal(<<"defi">>)
            THEN <<"Consider implementing batch swap functions and optimized liquidity operations">>
            ELSE <<>>,
          <<"\n">>,
          IF projectType = StrVal(<<"nft">>)
            THEN <<"Leverage Monad's larger contract size for rich metadata and batch minting">>
            ELSE <<>>,
          <<"\n">>,
          IF projectType = StrVal(<<"dao">>)
            THEN <<"Implement batch voting and concurrent proposal processing">>
            ELSE <<>>,
          <<"\n\n", "### Recommendations:", "\n">>,
          IF Len(recommendations) > 0
            THEN Join([k \in 1..Len(recommendations) |-> <<"- ", recommendations[k]>>], <<"\n">>)
            ELSE <<"All checks passed! Your migration follows Monad best practices.">>,
          <<"\n\n", "### Next Steps:", "\n",
            "1. Deploy to Monad testnet for testing ... 4. Test concurrent transaction scenarios">>
        >>)

validateMonadMigration(args) ==
    LET projectType == Field(args, "projectType")
        codeBase == Field(args, "codeBase")
    IN  IF ~HasIncludes(codeBase) THEN TypeError(codeBase, "codeBase", "includes")
        ELSE Report(ValidationText(projectType, ValidationChecks(codeBase)))

\* RegExp.prototype.test(String(code)) for the five pattern literals of
\* checkGasOptimization.  None has the g or y flag, so test() neither reads nor
\* writes lastIndex; the literals are evaluated anew on every call.
\* A piece of a pattern is matched by a word holding it; pieces joined by '.*'
\* are matched by words in that order on one line.
RegexTest(pattern, s) ==
    CASE pattern = "gasPrice.*52.*10\\*\\*9|gasPrice.*52000000000" ->
           \/ \E i, j, k \in 1..Len(s) :
                 /\ i < j /\ j < k /\ SameLine(s, i, k)
                 /\ WordHolds(s[i], "gasPrice") /\ WordHolds(s[j], "52")
                 /\ WordHolds(s[k], "10**9")
           \/ \E i, j \in 1..Len(s) :
                 /\ i < j /\ SameLine(s, i, j)
                 /\ WordHolds(s[i], "gasPrice") /\ WordHolds(s[j], "52000000000")
      [] pattern = "gasLimit.*\\d+" ->
           \E i, j \in 1..Len(s) :
              /\ i < j /\ SameLine(s, i, j)
              /\ WordHolds(s[i], "gasLimit") /\ s[j] \in DigitWords
      [] pattern = "estimateGas" ->
           \E i \in 1..Len(s) : WordHolds(s[i], "estimateGas")
      [] pattern = "maxFeePerGas|maxPriorityFeePerGas" ->
           \E i \in 1..Len(s) : \/ WordHolds(s[i], "maxFeePerGas")
                                \/ WordHolds(s[i], "maxPriorityFeePerGas")
      [] pattern = "batch|multicall/i" ->
           \E i \in 1..Len(s) : \/ WordHoldsI(s[i], "batch")
                                \/ WordHoldsI(s[i], "multicall")

\* a literal in which the EIP-1559 check is of importance high as well
GasChecksLiteralFourHigh ==
    << [check |-> "Hardcoded Gas Values",
        pattern |-> "gasPrice.*52.*10\\*\\*9|gasPrice.*52000000000",
        passed |-> FALSE, importance |-> "high"],
       [check |-> "Explicit Gas Limits", pattern |-> "gasLimit.*\\d+",
        passed |-> FALSE, importance |-> "high"],
       [check |-> "No Gas Estimation", pattern |-> "estimateGas",
        passed |-> TRUE, importance |-> "medium"],
       [check |-> "EIP-1559 Support", pattern |-> "maxFeePerGas|maxPriorityFeePerGas",
        passed |-> FALSE, importance |-> "high"],
       [check |-> "Batch Operations", pattern |-> "batch|multicall/i",
        passed |-> FALSE, importance |-> "high"] >>

\* the 'gasChecks' array literal, as written (before the checks run)
GasChecksLiteral ==
    << [check |-> "Hardcoded Gas Values",
        pattern |-> "gasPrice.*52.*10\\*\\*9|gasPrice.*52000000000",
        passed |-> FALSE, importance |-> "high"],
       [check |-> "Explicit Gas Limits", pattern |-> "gasLimit.*\\d+",
        passed |-> FALSE, importance |-> "high"],
       [check |-> "No Gas Estimation", pattern |-> "estimateGas",
        passed |-> TRUE, importance |-> "medium"],
       [check |-> "EIP-1559 Support", pattern |-> "maxFeePerGas|maxPriorityFeePerGas",
        passed |-> FALSE, importance |-> "medium"],
       [check |-> "Batch Operations", pattern |-> "batch|multicall/i",
        passed |-> FALSE, importance |-> "high"] >>

\* a forEach step that treats every check alike: passed when the pattern matches
RunGasCheckAlike(check, code) ==
    [check EXCEPT !.passed = RegexTest(check.pattern, Interp(code))]

\* one step of gasChecks.forEach: sets check.passed
RunGasCheck(check, code) ==
    IF check.check = "No Gas Estimation"
    THEN [check EXCEPT !.passed = ~RegexTest(check.pattern, Interp(code))]
    ELSE [check EXCEPT !.passed = RegexTest(check.pattern, Interp(code))]

\* gasChecks after the forEach
GasChecks(code) == [i \in 1..Len(GasChecksLiteral) |-> RunGasCheck(GasChecksLiteral[i], code)]

GasCheckText(gasChecks) ==
    LET highPriorityPassed == CountIf(LAMBDA c : c.importance = "high" /\ c.passed, gasChecks)
        highPriorityTotal == CountIf(LAMBDA c : c.importance = "high", gasChecks)
    IN  Flatten(<<
          <<"## Gas Optimization Analysis", "\n\n",
            "### High Priority Optimizations: ", ToString(highPriorityPassed), "/",
            ToString(highPriorityTotal), " (tick)", "\n\n",
            "### Detailed Results:", "\n">>,
          Join([i \in 1..Len(gasChecks) |->
                   <<Mark(gasChecks[i].passed), " **", gasChecks[i].check, "** (",
                     gasChecks[i].importance, " priority)">>], <<"\n">>),
          <<"\n\n", "### Monad-Specific Gas Recommendations: ... - Use hardcoded gas price: '",
            BigToString(GAS_CONFIG.defaultGasPrice), "' wei (52 gwei) ...",
            "### Code Examples: ... gasLimit: 21000n, // Explicit limit\n  gasPrice: ",
            BigToString(GAS_CONFIG.defaultGasPrice), "n, // Hardcoded\n  maxFeePerGas: ",
            BigToString(GAS_CONFIG.baseFeePerGas), "n + ",
            BigToString(GAS_CONFIG.maxPriorityFeePerGas), "n\n}; ...">>
        >>)

checkGasOptimization(args) ==
    Report(GasCheckText(GasChecks(Field(args, "code"))))

basicChecklist ==
    << "Update network configuration to Monad testnet (Chain ID: 10143)",
       "Replace dynamic gas pricing with hardcoded values",
       "Set explicit gas limits for all transactions",
       "Test basic contract deployment and interaction",
       "Verify contract functionality on Monad testnet" >>

moderateChecklist ==
    basicChecklist \o
    << "Implement multicall patterns for batch operations",
       "Add concurrent transaction processing",
       "Set up event indexing with supported providers",
       "Optimize contract reads with batch patterns",
       "Implement proper nonce management for multiple transactions",
       "Test gas usage patterns and optimize accordingly" >>

complexChecklist ==
    moderateChecklist \o
    << "Leverage Monad's 128kb contract size limit for consolidation",
       "Implement custom batching contracts for complex operations",
       "Set up comprehensive monitoring and alerting",
       "Optimize for Monad's high throughput capabilities",
       "Implement cross-chain bridge integrations if needed",
       "Set up automated testing for concurrent scenarios",
       "Implement advanced indexing with multiple providers",
       "Optimize frontend for Monad's fast block times (0.5s)",
       "Set up proper error handling for batch operations",
       "Implement fallback strategies for RPC failures" >>

\* a ternary that knows "simple" only and gives the full list otherwise
ChecklistForSimpleOrFull(complexity) ==
    IF complexity = StrVal(<<"simple">>) THEN basicChecklist
    ELSE complexChecklist

\* the ternary choosing the checklist
ChecklistFor(complexity) ==
    IF complexity = StrVal(<<"simple">>) THEN basicChecklist
    ELSE IF complexity = StrVal(<<"moderate">>) THEN moderateChecklist
    ELSE complexChecklist

\* String.prototype.toUpperCase of a word
ToUpperCase(w) ==
    CASE w = "simple" -> "SIMPLE"
      [] w = "moderate" -> "MODERATE"
      [] w = "complex" -> "COMPLEX"
      [] w = "x" -> "X"
      [] OTHER -> w

CoreTasksHeader == "### Core Migration Tasks"
ItemPrefix == "- [ ] "

ChecklistText(complexity) ==
    LET checklist == ChecklistFor(complexity)
    IN  Flatten(<<
          <<"## Monad Migration Checklist (">>,
          [i \in 1..Len(complexity.v) |-> ToUpperCase(complexity.v[i])],
          <<" complexity)", "\n\n",
            "### Pre-Migration", "\n",
            ItemPrefix, "Audit existing codebase for Monad compatibility", "\n",
            ItemPrefix, "Identify gas-heavy operations for optimization", "\n",
            ItemPrefix, "Plan indexing strategy for event data", "\n",
            ItemPrefix, "Set up Monad testnet development environment", "\n\n",
            CoreTasksHeader, "\n">>,
          Join([i \in 1..Len(checklist) |-> <<ItemPrefix, checklist[i]>>], <<"\n">>),
          <<"\n\n", "### Monad-Specific Optimizations", "\n",
            ItemPrefix, "Replace 'eth_chainId' calls with hardcoded value: ",
            ToString(TESTNET.chainId), "\n",
            ItemPrefix, "Replace 'eth_gasPrice' calls with hardcoded value: ",
            BigToString(GAS_CONFIG.defaultGasPrice), " wei", "\n",
            ItemPrefix, "Use Multicall3 at: '", ContractAddress("Multicall3"), "'", "\n",
            ItemPrefix, "Implement proper gas_limit vs gas_used cost calculations", "\n",
            ItemPrefix, "Optimize for 500ms block times", "\n\n",
            "### Testing & Validation ... ### Deployment & Monitoring ...", "\n\n",
            "### Resources", "\n",
            "- **Testnet RPC**: ", TESTNET.rpcUrl, "\n",
            "- **Explorer**: ", TESTNET.explorerUrl, "\n",
            "- **Faucet**: ", TESTNET.faucetUrl, "\n",
            "- **Max Contract Size**: ",
            ToString(OPTIMIZATION_CONSTANTS.MAX_CONTRACT_SIZE \div 1024), "kb", "\n",
            "- **Recommended Batch Size**: ",
            ToString(OPTIMIZATION_CONSTANTS.RECOMMENDED_BATCH_SIZE), "\n\n",
            "### Success Criteria ...">>
        >>)

generateMigrationChecklist(args) ==
    LET complexity == Field(args, "complexity")
    IN  IF complexity.t # "string" THEN TypeError(complexity, "complexity", "toUpperCase")
        ELSE Report(ChecklistText(complexity))

\* an executeTool whose switch lacks the case of generate_migration_checklist
ValidationExecuteToolTwoCases(name, args) ==
    CASE name = "validate_monad_migration" -> validateMonadMigration(args)
      [] name = "check_gas_optimization" -> checkGasOptimization(args)
      [] OTHER -> Throw(<<"Unknown tool: ", name>>)

\* ValidationTool.executeTool
ValidationExecuteTool(name, args) ==
    CASE name = "validate_monad_migration" -> validateMonadMigration(args)
      [] name = "check_gas_optimization" -> checkGasOptimization(args)
      [] name = "generate_migration_checklist" -> generateMigrationChecklist(args)
      [] OTHER -> Throw(<<"Unknown tool: ", name>>)

-----------------------------------------------------------------------------
(* ContractMigrationTool *)

\* originalCode.match(/chainId.*?[,;]/g)?.[0] || '' : the leftmost, shortest run
\* of words from one holding "chainId" to a "," or ";" on the same line
FirstChainIdMatch(s) ==
    LET Ends(i) == {j \in (i + 1)..Len(s) : s[j] \in {",", ";"} /\ SameLine(s, i, j)}
        Starts == {i \in 1..Len(s) : WordHolds(s[i], "chainId") /\ Ends(i) # {}}
    IN  IF Starts = {} THEN <<>>
        ELSE LET i == CHOOSE i \in Starts : \A k \in Starts : i <= k
                 j == CHOOSE j \in Ends(i) : \A k \in Ends(i) : j <= k
             IN  SubSeq(s, i, j)

migrateContractDeployment(args) ==
    LET originalCode == Field(args, "originalCode")
        contractType == Field(args, "contractType")
        optimizationLevel == FieldOr(args, "optimizationLevel", StrVal(<<"basic">>))
        hasChainId == ValIncludes(originalCode, <<"chainId">>)
        networkConfig ==
          Flatten(<<
            <<"\n// === MONAD MIGRATION: Network Configuration === ...", "\n\n", "// ">>,
            IF hasChainId THEN <<"// Original chain configuration (commented out)">> ELSE <<>>,
            <<"\n">>,
            IF hasChainId THEN <<"// ">> \o FirstChainIdMatch(originalCode.v) ELSE <<>>,
            <<"\n\n", "const MONAD_CONFIG = {\n  chainId: ", ToString(TESTNET.chainId),
              ",\n  name: \"", TESTNET.name, "\",\n  rpcUrl: \"", TESTNET.rpcUrl,
              "\", ... gasPrice: ", BigToString(GAS_CONFIG.defaultGasPrice),
              ", // 52 gwei\n  baseFeePerGas: ", BigToString(GAS_CONFIG.baseFeePerGas),
              ", // 50 gwei (hardcoded)\n  maxPriorityFeePerGas: ",
              BigToString(GAS_CONFIG.maxPriorityFeePerGas), ", // 2 gwei (hardcoded) ...">>
          >>)
        gasOptimization ==
          Flatten(<<
            <<"\n// === MONAD MIGRATION: Gas Optimization === ... const MONAD_GAS_LIMITS = { ...", "\n  ">>,
            IF contractType = StrVal(<<"token">>) THEN <<"tokenDeployment: 2000000,">> ELSE <<>>,
            <<"\n  ">>,
            IF contractType = StrVal(<<"nft">>) THEN <<"nftDeployment: 3000000,">> ELSE <<>>,
            <<"\n  ">>,
            IF contractType = StrVal(<<"defi">>) THEN <<"defiDeployment: 5000000,">> ELSE <<>>,
            <<"\n  ">>,
            IF contractType = StrVal(<<"dao">>) THEN <<"daoDeployment: 4000000,">> ELSE <<>>,
            <<"\n ... };">>
          >>)
        concurrentOptimization ==
          <<"\n// === MONAD MIGRATION: Concurrent Deployment Optimization === ...">>
        optimizedCode ==
          networkConfig \o <<"\n\n">> \o gasOptimization \o <<"\n\n">>
            \o concurrentOptimization \o <<"\n\n">> \o Interp(originalCode)
        comments ==
          << "Updated network configuration for Monad testnet",
             "Added hardcoded gas values for optimization",
             "Implemented concurrent deployment pattern",
             "Added Monad-specific optimizations" >>
    IN  IF ~HasIncludes(originalCode) THEN TypeError(originalCode, "originalCode", "includes")
        ELSE IF hasChainId /\ originalCode.t # "string" THEN TypeError(originalCode, "originalCode", "match")
        ELSE Report(Flatten(<<
               <<"## Contract Deployment Migration to Monad", "\n\n",
                 "### Key Changes Made:", "\n">>,
               Join([i \in 1..Len(comments) |-> <<"- ", comments[i]>>], <<"\n">>),
               <<"\n\n", "### Optimized Code:", "\n", "'''javascript", "\n">>,
               optimizedCode,
               <<"\n", "'''", "\n\n", "### Migration Notes: ... ### Next Steps: ...">>
             >>))

\* (targetSize / 1024).toFixed(1): one decimal, halves up ("NaN" for a value
\* that is no number)
KbToFixed1(targetSize) ==
    IF targetSize.t # "number" THEN "NaN"
    ELSE LET tenths == (2 * 10 * targetSize.v + 1024) \div (2 * 1024)
         IN  ToString(tenths \div 10) \o "." \o ToString(tenths % 10)

optimizeContractSize(args) ==
    LET contractCode == Field(args, "contractCode")
        targetSize == FieldOr(args, "targetSize", NumVal(131072))
    IN  Report(Flatten(<<
          <<"## Contract Size Optimization for Monad", "\n\n",
            "\n// === MONAD MIGRATION: Contract Size Optimization === ...",
            "### Target Size: ">>,
          Interp(targetSize), <<" bytes (", KbToFixed1(targetSize), "kb)">>
        >>))

addMonadGasOptimizations(args) ==
    LET contractCode == Field(args, "contractCode")
        functions == FieldOr(args, "functions", ArrVal(<<>>))
    IN  Report(<<"## Monad Gas Optimizations", "\n\n",
                 "\n// === MONAD MIGRATION: Gas Optimizations === ...",
                 "### Gas Optimization Strategies: ...">>)

\* constructorArgs.map((arg) => `"${arg}"`).join(', ')
QuotedArgs(constructorArgs) ==
    Join([i \in 1..Len(constructorArgs.v) |-> <<"\"">> \o constructorArgs.v[i] \o <<"\"">>],
         <<", ">>)

\* the same line with the Date evaluated by the server when the request is handled
DeploymentTimeLineEvaluated ==
    <<"    deploymentTime: \"", ToString(clock), "\",", "\n">>

\* the line of the emitted script that holds `deploymentTime`: literal text of
\* the template, the Date is not evaluated by the server
DeploymentTimeLine == <<"    deploymentTime: new Date().toISOString(),", "\n">>

DeploymentScript(contractName, constructorArgs, useCreateX) ==
    Flatten(<<
      <<"\n// === MONAD DEPLOYMENT SCRIPT === ... const MONAD_DEPLOYMENT_CONFIG = { ... gasPrice: ",
        BigToString(GAS_CONFIG.defaultGasPrice), ",\n  gasLimit: 2000000, ... chainId: ",
        ToString(TESTNET.chainId), ",\n  rpcUrl: \"", TESTNET.rpcUrl, "\",", "\n  ">>,
      IF Truthy(useCreateX)
        THEN <<"createX: \"", ContractAddress("CreateX"), "\",">> ELSE <<>>,
      <<"\n  multicall3: \"", ContractAddress("Multicall3"), "\",\n};", "\n\n",
        "async function deployContract() { ... ethers.getContractFactory(\"">>,
      Interp(contractName), <<"\", signer);", "\n  ">>,
      IF Truthy(useCreateX)
        THEN Flatten(<<
               <<"\n  // === MONAD OPTIMIZATION: CreateX Deployment (Deterministic) ===",
                 "\n  const createXContract = new ethers.Contract(\n    MONAD_DEPLOYMENT_CONFIG.createX,\n    CREATE_X_ABI,\n    signer\n  );",
                 " ... ethers.toUtf8Bytes(\"">>,
               Interp(contractName), <<"\")); ... console.log(\"Deploying ">>,
               Interp(contractName),
               <<" using CreateX...\"); ... createXContract.computeCreate2Address( ... );\n  ">>
             >>)
        ELSE Flatten(<<
               <<"\n  // === MONAD OPTIMIZATION: Standard deployment with explicit gas ===",
                 "\n  console.log(\"Deploying ">>,
               Interp(contractName),
               <<"...\");\n  const contract = await ContractFactory.deploy(\n    ">>,
               QuotedArgs(constructorArgs),
               <<",\n    { ... }\n  ); ... const deployedAddress = await contract.getAddress();\n  ">>
             >>),
      <<"\n ... // === MONAD OPTIMIZATION: Save deployment info ===\n  const deploymentInfo = {\n    contractName: \"">>,
      Interp(contractName), <<"\", ...", "\n">>,
      DeploymentTimeLine,
      <<"    constructorArgs: [">>, QuotedArgs(constructorArgs), <<"],", "\n    ">>,
      IF Truthy(useCreateX) THEN <<"deploymentMethod: \"CreateX\",">>
                            ELSE <<"deploymentMethod: \"Standard\",">>,
      <<"\n  }; ... async function batchDeploy(...) { ... }", "\n\n">>,
      IF Truthy(useCreateX)
        THEN <<"\n// CreateX ABI (minimal)\nconst CREATE_X_ABI = [ ... ];\n">> ELSE <<>>,
      <<"\n\n// Export deployment functions ...">>
    >>)

\* a handler whose useCreateX defaults to true
generateMonadDeploymentScriptCreateXByDefault(args) ==
    LET contractName == Field(args, "contractName")
        constructorArgs == FieldOr(args, "constructorArgs", ArrVal(<<>>))
        useCreateX == FieldOr(args, "useCreateX", BoolVal(TRUE))
    IN  IF constructorArgs.t # "array" THEN TypeError(constructorArgs, "constructorArgs", "map")
        ELSE Report(Flatten(<<
               <<"## Monad Deployment Script", "\n\n",
                 "### Generated deployment script optimized for Monad blockchain:", "\n\n",
                 "'''typescript", "\n">>,
               DeploymentScript(contractName, constructorArgs, useCreateX),
               <<"\n", "'''", "\n\n", "### Key Optimizations: ...",
                 "4. **Deterministic Deployment**: ",
                 IF Truthy(useCreateX) THEN "Uses CreateX for" ELSE "Option to use CreateX for",
                 " deterministic addresses", "\n", "... ### Next Steps: ...">>
             >>))

generateMonadDeploymentScript(args) ==
    LET contractName == Field(args, "contractName")
        constructorArgs == FieldOr(args, "constructorArgs", ArrVal(<<>>))
        useCreateX == FieldOr(args, "useCreateX", BoolVal(FALSE))
    IN  IF constructorArgs.t # "array" THEN TypeError(constructorArgs, "constructorArgs", "map")
        ELSE Report(Flatten(<<
               <<"## Monad Deployment Script", "\n\n",
                 "### Generated deployment script optimized for Monad blockchain:", "\n\n",
                 "'''typescript", "\n">>,
               DeploymentScript(contractName, constructorArgs, useCreateX),
               <<"\n", "'''", "\n\n", "### Key Optimizations: ...",
                 "4. **Deterministic Deployment**: ",
                 IF Truthy(useCreateX) THEN "Uses CreateX for" ELSE "Option to use CreateX for",
                 " deterministic addresses", "\n", "... ### Next Steps: ...">>
             >>))

\* ContractMigrationTool.executeTool
ContractExecuteTool(name, args) ==
    CASE name = "migrate_contract_deployment" -> migrateContractDeployment(args)
      [] name = "optimize_contract_size" -> optimizeContractSize(args)
      [] name = "add_monad_gas_optimizations" -> addMonadGasOptimizations(args)
      [] name = "generate_monad_deployment_script" -> generateMonadDeploymentScript(args)
      [] OTHER -> Throw(<<"Unknown tool: ", name>>)

-----------------------------------------------------------------------------
(* The caller's code embedded as a comment block *)

\* a block that leaves the empty lines out
CommentBlockOfNonEmptyLines(code) ==
    LET lines == SelectSeq(SplitOn(code, "\n"), LAMBDA l : l # <<>>)
    IN  Join([i \in 1..Len(lines) |-> <<"// ">> \o lines[i]], <<"\n">>)

\* code.split('\n').map(line => `// ${line}`).join('\n')
CommentBlock(code) ==
    LET lines == SplitOn(code, "\n")
    IN  Join([i \in 1..Len(lines) |-> <<"// ">> \o lines[i]], <<"\n">>)

-----------------------------------------------------------------------------
(* FrontendMigrationTool *)

migrateWeb3Config(args) ==
    LET originalConfig == Field(args, "originalConfig")
        framework == Field(args, "framework")
    IN  IF originalConfig.t # "string" THEN TypeError(originalConfig, "originalConfig", "split")
        ELSE Report(Flatten(<<
               <<"## Frontend Configuration Migration", "\n\n",
                 "### Monad-Optimized Web3 Configuration:", "\n\n", "'''typescript", "\n",
                 "\n// === MONAD MIGRATION: Web3 Configuration ===\n// Original EVM configuration (commented out)",
                 "\n">>,
               CommentBlock(originalConfig.v),
               <<"\n\n", "// Monad-optimized configuration\nconst MONAD_CONFIG = {\n  chainId: ",
                 ToString(TESTNET.chainId), ",\n  name: \"", TESTNET.name,
                 "\",\n  currency: \"", TESTNET.currency, "\",\n  rpcUrl: \"", TESTNET.rpcUrl,
                 "\",\n  explorerUrl: \"", TESTNET.explorerUrl,
                 "\", ... staticValues: {\n    gasPrice: \"", STATIC_RPC_RESPONSES.eth_gasPrice,
                 "\",\n    chainId: \"", STATIC_RPC_RESPONSES.eth_chainId,
                 "\",\n    maxPriorityFeePerGas: \"",
                 STATIC_RPC_RESPONSES.eth_maxPriorityFeePerGas,
                 "\"\n  }, ... batchSize: ",
                 ToString(OPTIMIZATION_CONSTANTS.RECOMMENDED_BATCH_SIZE),
                 ",\n  maxBlockRange: ",
                 ToString(OPTIMIZATION_CONSTANTS.MAX_BLOCK_RANGE_LOGS),
                 "\n}; ...", "\n", "'''", "\n\n", "### Key Optimizations: ...">>
             >>))

optimizeRPCCalls(args) ==
    LET code == Field(args, "code")
        library == Field(args, "library")
    IN  IF code.t # "string" THEN TypeError(code, "code", "split")
        ELSE Report(Flatten(<<
               <<"## RPC Call Optimization", "\n\n", "'''typescript", "\n",
                 "\n// === MONAD MIGRATION: RPC Call Optimization ===\n\n// Original: Multiple sequential RPC calls (slow)",
                 "\n">>,
               CommentBlock(code.v),
               <<"\n\n", "// Monad optimized: Batch RPC calls ... new ethers.Contract(\n    \"",
                 ContractAddress("Multicall3"), "\", ...", "\n", "'''", "\n\n",
                 "### Performance Improvements: ...">>
             >>))

\* a handler that states how many functions it was given
implementBatchCallsCountingFunctions(args) ==
    LET functions == Field(args, "functions")
    IN  IF functions.t # "array" THEN TypeError(functions, "functions", "map")
        ELSE Report(<<"## Batch Call Implementation", "\n\n", "'''typescript", "\n",
                      "\n// === MONAD MIGRATION: Batch Call Implementation ===\n\nclass MonadBatchProcessor {\n  private batchSize = ",
                      ToString(OPTIMIZATION_CONSTANTS.RECOMMENDED_BATCH_SIZE), "; ...",
                      "\n", "'''", "\n\n", "### Functions: ", ToString(Len(functions.v)),
                      "\n\n", "### Features: ...">>)

implementBatchCalls(args) ==
    LET functions == Field(args, "functions")
    IN  Report(<<"## Batch Call Implementation", "\n\n", "'''typescript", "\n",
                 "\n// === MONAD MIGRATION: Batch Call Implementation ===\n\nclass MonadBatchProcessor {\n  private batchSize = ",
                 ToString(OPTIMIZATION_CONSTANTS.RECOMMENDED_BATCH_SIZE), "; ...",
                 "\n", "'''", "\n\n", "### Features: ...">>)

\* FrontendMigrationTool.executeTool
FrontendExecuteTool(name, args) ==
    CASE name = "migrate_web3_config" -> migrateWeb3Config(args)
      [] name = "optimize_rpc_calls" -> optimizeRPCCalls(args)
      [] name = "implement_batch_calls" -> implementBatchCalls(args)
      [] OTHER -> Throw(<<"Unknown tool: ", name>>)

-----------------------------------------------------------------------------
(* GasOptimizationTool *)

optimizeGasEstimation(args) ==
    LET code == Field(args, "code")
    IN  IF code.t # "string" THEN TypeError(code, "code", "split")
        ELSE Report(Flatten(<<
               <<"## Gas Estimation Optimization", "\n\n", "### Optimized Code:", "\n",
                 "'''typescript", "\n",
                 "\n// === MONAD MIGRATION: Gas Estimation Optimization ===\n\n// Original: Dynamic gas estimation (commented out)",
                 "\n">>,
               CommentBlock(code.v),
               <<"\n\n", "// Monad optimized: Use hardcoded gas values\nconst MONAD_GAS_VALUES = {\n  transfer: ",
                 BigToString(GAS_CONFIG.standardTransferGas),
                 ", ... const getGasPrice = () => ",
                 BigToString(GAS_CONFIG.defaultGasPrice), "n; ... maxFeePerGas: ",
                 BigToString(GAS_CONFIG.baseFeePerGas), "n + ",
                 BigToString(GAS_CONFIG.maxPriorityFeePerGas),
                 "n,\n    maxPriorityFeePerGas: ",
                 BigToString(GAS_CONFIG.maxPriorityFeePerGas), "n\n  };\n}",
                 "\n", "'''", "\n\n", "### Key Changes: ...">>
             >>))

implementGasLimitStrategy(args) ==
    LET transactionTypes == Field(args, "transactionTypes")
    IN  Report(<<"## Gas Limit Strategy Implementation", "\n\n", "'''typescript", "\n",
                 "\n// === MONAD GAS LIMIT STRATEGY === ... gasPrice: ",
                 BigToString(GAS_CONFIG.defaultGasPrice), "n,\n      maxFeePerGas: ",
                 BigToString(GAS_CONFIG.baseFeePerGas), "n + ",
                 BigToString(GAS_CONFIG.maxPriorityFeePerGas),
                 "n,\n      maxPriorityFeePerGas: ",
                 BigToString(GAS_CONFIG.maxPriorityFeePerGas), "n, ...",
                 "\n", "'''", "\n\n", "### Strategy Benefits: ...">>)

\* GasOptimizationTool.executeTool
GasExecuteTool(name, args) ==
    CASE name = "optimize_gas_estimation" -> optimizeGasEstimation(args)
      [] name = "implement_gas_limit_strategy" -> implementGasLimitStrategy(args)
      [] OTHER -> Throw(<<"Unknown tool: ", name>>)

-----------------------------------------------------------------------------
(* RPCOptimizationTool *)

\* calls.map((call, i) => `{ ... Contract ${i + 1} ... "${call}" ... }`).join(',')
MulticallEntries(calls) ==
    Join([i \in 1..Len(calls.v) |->
             <<"\n  {\n    target: \"0x...\", // Contract ", ToString(i),
               " address\n    callData: contract", ToString(i),
               ".interface.encodeFunctionData(\"">> \o calls.v[i]
               \o <<"\"),\n    allowFailure: false\n  }">>],
         <<",">>)

implementMulticallPattern(args) ==
    LET calls == Field(args, "calls")
    IN  IF calls.t # "array" THEN TypeError(calls, "calls", "map")
        ELSE Report(Flatten(<<
               <<"## Multicall Pattern Implementation", "\n\n", "### Multicall Optimizer:",
                 "\n", "'''typescript", "\n",
                 "\n// === MONAD MIGRATION: Multicall Implementation === ... private multicallAddress = \"",
                 ContractAddress("Multicall3"),
                 "\"; ... const batchResults = await multicaller.batchContractReads([">>,
               MulticallEntries(calls),
               <<"\n]);", "\n", "'''", "\n\n", "### Benefits: ...">>
             >>))

optimizeConcurrentCalls(args) ==
    LET originalCode == Field(args, "originalCode")
    IN  IF originalCode.t # "string" THEN TypeError(originalCode, "originalCode", "split")
        ELSE Report(Flatten(<<
               <<"## Concurrent RPC Call Optimization", "\n\n", "'''typescript", "\n",
                 "\n// === MONAD MIGRATION: Concurrent RPC Optimization ===\n\n// Original sequential calls (commented out)",
                 "\n">>,
               CommentBlock(originalCode.v),
               <<"\n\n", "// Monad optimized: Concurrent pattern\nclass MonadRPCOptimizer {\n  private batchSize = ",
                 ToString(OPTIMIZATION_CONSTANTS.RECOMMENDED_BATCH_SIZE),
                 "; ... new ethers.JsonRpcProvider(\"", TESTNET.rpcUrl, "\"); ... gasPrice: ",
                 BigToString(GAS_CONFIG.defaultGasPrice), "n ...",
                 "\n", "'''", "\n\n", "### Performance Benefits: ...">>
             >>))

\* RPCOptimizationTool.executeTool
RPCExecuteTool(name, args) ==
    CASE name = "implement_multicall_pattern" -> implementMulticallPattern(args)
      [] name = "optimize_concurrent_calls" -> optimizeConcurrentCalls(args)
      [] OTHER -> Throw(<<"Unknown tool: ", name>>)

-----------------------------------------------------------------------------
(* IndexerMigrationTool *)

\* a name that keeps the whole event text
EventNameWhole(event) == event

\* event.split('(')[0]
EventName(event) == SplitOn(event, "(")[1]

\* `MyContract_${events[0]?.split('(')[0]}`: "undefined" for an empty array
FirstEventName(events) ==
    IF Len(events.v) = 0 THEN <<"undefined">> ELSE EventName(events.v[1])

\* events.map(event => `    - event: ${event}`).join('\n')
EnvioEventLines(events) ==
    Join([i \in 1..Len(events.v) |-> <<"    - event: ">> \o events.v[i]], <<"\n">>)

\* events.map(event => { ... handler block ... }).join('')
EnvioHandlerBlocks(events) ==
    Flatten([i \in 1..Len(events.v) |->
        LET eventName == EventName(events.v[i])
        IN  Flatten(<< <<"\n// Handler for ">>, eventName, <<"\nMyContract.">>, eventName,
                       <<".handler(async ({ event, context }) => {\n  const entity: MyContract_">>,
                       eventName,
                       <<" = { ... };\n  \n  context.MyContract_">>, eventName,
                       <<".set(entity);\n});">> >>)])

setupEnvioIndexer(args) ==
    LET contractAddress == Field(args, "contractAddress")
        events == Field(args, "events")
        config ==
          Flatten(<<
            <<"# Envio HyperIndex Configuration for Monad\nname: monad-indexer\nnetworks:\n- id: ",
              ToString(INDEXER_CONFIGS.ENVIO.networkId),
              "  # Monad Testnet\n  start_block: 0\n  contracts:\n  - name: MyContract\n    address:\n    - ">>,
            Interp(contractAddress),
            <<"\n    handler: src/EventHandlers.ts\n    events:", "\n">>,
            EnvioEventLines(events)
          >>)
        eventHandlers ==
          Flatten(<<
            <<"import { MyContract, MyContract_">>, FirstEventName(events),
            <<" } from \"generated\";", "\n\n">>,
            EnvioHandlerBlocks(events)
          >>)
    IN  IF events.t # "array" THEN TypeError(events, "events", "map")
        ELSE Report(Flatten(<<
               <<"## Envio HyperIndex Setup for Monad", "\n\n",
                 "### Configuration (config.yaml):", "\n", "'''yaml", "\n">>,
               config,
               <<"\n", "'''", "\n\n", "### Event Handlers (src/EventHandlers.ts):", "\n",
                 "'''typescript", "\n">>,
               eventHandlers,
               <<"\n", "'''", "\n\n", "### Commands: ...">>
             >>))

\* events.map(event => `        - ${event.split('(')[0]}`).join('\n')
GoldskyEntityLines(events) ==
    Join([i \in 1..Len(events.v) |-> <<"        - ">> \o EventName(events.v[i])], <<"\n">>)

\* events.map(event => `        - event: ${event}\n          handler: handle${...}`).join('\n')
GoldskyHandlerLines(events) ==
    Join([i \in 1..Len(events.v) |->
             <<"        - event: ">> \o events.v[i] \o <<"\n          handler: handle">>
               \o EventName(events.v[i])],
         <<"\n">>)

configureGoldskySubgraph(args) ==
    LET contractName == Field(args, "contractName")
        events == Field(args, "events")
    IN  IF events.t # "array" THEN TypeError(events, "events", "map")
        ELSE Report(Flatten(<<
               <<"## Goldsky Subgraph Configuration", "\n\n",
                 "### Subgraph Manifest (subgraph.yaml):", "\n", "'''yaml", "\n",
                 "specVersion: 1.2.0 ... dataSources:\n  - kind: ethereum\n    name: ">>,
               Interp(contractName),
               <<"\n    network: ", INDEXER_CONFIGS.GOLDSKY.networkIdentifier,
                 "\n    source:\n      address: \"CONTRACT_ADDRESS_HERE\"\n      abi: ">>,
               Interp(contractName),
               <<"ABI\n      startBlock: 0\n    mapping: ... entities:", "\n">>,
               GoldskyEntityLines(events),
               <<"\n      abis:\n        - name: ">>, Interp(contractName),
               <<"ABI\n          file: ./abis/">>, Interp(contractName),
               <<".json\n      eventHandlers:", "\n">>,
               GoldskyHandlerLines(events),
               <<"\n      file: ./src/mapping.ts", "\n", "'''", "\n\n",
                 "### Deploy Command: ...", "### Network: ",
                 INDEXER_CONFIGS.GOLDSKY.networkIdentifier>>
             >>))

\* IndexerMigrationTool.executeTool
IndexerExecuteTool(name, args) ==
    CASE name = "setup_envio_indexer" -> setupEnvioIndexer(args)
      [] name = "configure_goldsky_subgraph" -> configureGoldskySubgraph(args)
      [] OTHER -> Throw(<<"Unknown tool: ", name>>)

-----------------------------------------------------------------------------
(* TransactionOptimizationTool *)

implementConcurrentTransactions(args) ==
    LET transactionCount == Field(args, "transactionCount")
    IN  Report(Flatten(<<
          <<"## Concurrent Transaction Implementation", "\n\n", "### Transaction Manager:",
            "\n", "'''typescript", "\n",
            "\n// === MONAD MIGRATION: Concurrent Transaction Implementation === ... new ethers.JsonRpcProvider(\"",
            TESTNET.rpcUrl, "\"); ... gasLimit: tx.gasLimit || ",
            BigToString(GAS_CONFIG.standardTransferGas), "n,\n        gasPrice: ",
            BigToString(GAS_CONFIG.defaultGasPrice), "n, ... chainId: ",
            ToString(TESTNET.chainId), " ... gasLimitPerTx: bigint = ",
            BigToString(GAS_CONFIG.standardTransferGas), "n ...", "\n  // Example: ">>,
          Interp(transactionCount),
          <<" concurrent transfers\n  async exampleConcurrentTransfers() {\n    const recipients = Array(">>,
          Interp(transactionCount),
          <<").fill(null).map( ... );\n    const amounts = Array(">>,
          Interp(transactionCount),
          <<").fill(ethers.parseEther(\"0.01\")); ...", "\n", "'''", "\n\n",
            "### Key Features: ...">>
        >>))

optimizeNonceManagement(args) ==
    LET walletType == Field(args, "walletType")
        isEthers == walletType = StrVal(<<"ethers">>)
    IN  Report(Flatten(<<
          <<"## Advanced Nonce Management", "\n\n", "### Nonce Manager Implementation:",
            "\n", "'''typescript", "\n",
            "\n// === MONAD MIGRATION: Advanced Nonce Management ===\n\nclass MonadNonceManager { ... gasPrice: ",
            BigToString(GAS_CONFIG.defaultGasPrice), "n,\n      chainId: ",
            ToString(TESTNET.chainId), "\n    };\n  }\n}", "\n\n", "// ">>,
          Interp(walletType), <<" Integration", "\n">>,
          IF isEthers
            THEN <<"\nclass MonadEthersHelper { ... }\n">>
            ELSE <<"\nclass MonadViemHelper { ... gasPrice: ",
                   BigToString(GAS_CONFIG.defaultGasPrice), ",\n      chain: { id: ",
                   ToString(TESTNET.chainId), " } ... }\n">>,
          <<"\n\n", "// Usage example\nconst helper = new Monad",
            IF isEthers THEN "Ethers" ELSE "Viem",
            "Helper(/* parameters */); ...", "\n", "'''", "\n\n",
            "### Benefits: ... - Optimized for ">>,
          Interp(walletType), <<" library">>
        >>))

\* TransactionOptimizationTool.executeTool
TransactionExecuteTool(name, args) ==
    CASE name = "implement_concurrent_transactions" -> implementConcurrentTransactions(args)
      [] name = "optimize_nonce_management" -> optimizeNonceManagement(args)
      [] OTHER -> Throw(<<"Unknown tool: ", name>>)

-----------------------------------------------------------------------------
(* Dispatch to a tool object: tool.executeTool(name, args) *)

executeTool(inst, name, args) ==
    CASE inst.cls = "ContractMigrationTool" -> ContractExecuteTool(name, args)
      [] inst.cls = "FrontendMigrationTool" -> FrontendExecuteTool(name, args)
      [] inst.cls = "GasOptimizationTool" -> GasExecuteTool(name, args)
      [] inst.cls = "RPCOptimizationTool" -> RPCExecuteTool(name, args)
      [] inst.cls = "IndexerMigrationTool" -> IndexerExecuteTool(name, args)
      [] inst.cls = "TransactionOptimizationTool" -> TransactionExecuteTool(name, args)
      [] inst.cls = "ValidationTool" -> ValidationExecuteTool(name, args)

-----------------------------------------------------------------------------
(* MonadMigrationServer: the registry (a Map from name to tool object) *)

\* the tool objects are referred to by their position in `instances`
MapHas(m, key) == \E i \in 1..Len(m) : m[i].key = key

\* Map.prototype.set: a present key keeps its place and gets the new value,
\* a new key is appended
MapSet(m, key, value) ==
    IF MapHas(m, key)
    THEN [i \in 1..Len(m) |-> IF m[i].key = key THEN [key |-> key, value |-> value] ELSE m[i]]
    ELSE Append(m, [key |-> key, value |-> value])

\* Map.prototype.get: 0 stands for undefined
MapGet(m, key) ==
    IF MapHas(m, key) THEN (CHOOSE e \in {m[i] : i \in 1..Len(m)} : e.key = key).value
    ELSE 0

\* Map.prototype.values(): the values in insertion order of their keys
MapValues(m) == [i \in 1..Len(m) |-> m[i].value]

\* the ListToolsRequestSchema handler
ListToolsHandler(registry, insts) ==
    LET values == MapValues(registry)
        allTools == Flatten([i \in 1..Len(values) |-> getTools(insts[values[i]])])
    IN  [kind |-> "tools", tools |-> allTools]

\* a lookup that falls back on the first registered tool object when the name
\* is missing
CallToolLookupOrFirst(registry, name) ==
    IF MapHas(registry, name) THEN MapGet(registry, name) ELSE 1

\* the CallToolRequestSchema handler: its result, and the executeTool call it makes
CallToolLookup(registry, name) == MapGet(registry, name)

CallToolHandler(registry, insts, name, args) ==
    LET tool == CallToolLookup(registry, name)
    IN  IF tool = 0 THEN Throw(<<"Tool ", name, " not found">>)
        ELSE executeTool(insts[tool], name, args)

CallToolExecuted(registry, insts, name, args) ==
    LET tool == CallToolLookup(registry, name)
    IN  IF tool = 0 THEN NoCall
        ELSE [module |-> insts[tool].cls, name |-> name, args |-> args]

-----------------------------------------------------------------------------
(* Requests the host may send *)

ListRequest == [method |-> "tools/list", name |-> "", args |-> <<>>]
CallRequest(name, args) == [method |-> "tools/call", name |-> name, args |-> args]

\* an arguments object: its entries in order
Arg(f, val) == [k |-> f, v |-> val]

\* every descriptor declared by the seven modules, in registration order
DeclaredDescriptors ==
    Flatten([i \in 1..Len(NewToolInstances) |-> NewToolInstances[i].tools])

DeclaredNames == {DeclaredDescriptors[i].name : i \in 1..Len(DeclaredDescriptors)}

\* strings of up to n words over the set W
RECURSIVE WordSeqs(_, _)
WordSeqs(W, n) ==
    IF n = 0 THEN {<<>>}
    ELSE WordSeqs(W, n - 1) \cup
         {Append(s, w) : s \in {t \in WordSeqs(W, n - 1) : Len(t) = n - 1}, w \in W}

\* length of the code strings tried on check_gas_optimization
MaxCodeLen == 3
\* length of the arrays tried
MaxArrayLen == 2

\* codeBase texts for validate_monad_migration: every selection, in this order,
\* of the words the five checks look for
MarkerWords ==
    <<"10143", "52000000000", "52", "*", "10**9", "multicall", "Multicall3",
      "Promise.all", "gasLimit", "estimateGas", "eth_estimateGas">>
MarkerTexts ==
    {SelectSeq(MarkerWords, LAMBDA w : w \in S) :
        S \in SUBSET {MarkerWords[i] : i \in 1..Len(MarkerWords)}}

\* code texts for check_gas_optimization
GasWords ==
    {"gasPrice", "52", "10**9", "52000000000", "gasLimit", "21000", "estimateGas",
     "maxFeePerGas", "Batch", "\n"}
GasTexts == WordSeqs(GasWords, MaxCodeLen)

SampleStrings == {<<>>, <<"x">>, <<"x", "\n", "chainId", "10143", ";">>}
SampleItems == {<<"x">>, <<"Transfer", "(", "x">>}
SampleNumbers == {0, 3, 131072}

\* values of the declared type of property p of operation op
SampleValues(op, p) ==
    IF p.enum # <<>> THEN {StrVal(<<p.enum[i]>>) : i \in 1..Len(p.enum)}
    ELSE CASE p.type = "string" ->
                {StrVal(s) : s \in (IF p.field = "codeBase" THEN MarkerTexts
                                    ELSE IF op = "check_gas_optimization" THEN GasTexts
                                    ELSE SampleStrings)}
           [] p.type = "number" -> {NumVal(n) : n \in SampleNumbers}
           [] p.type = "boolean" -> {BoolVal(b) : b \in BOOLEAN}
           [] p.type = "array" -> {ArrVal(a) : a \in WordSeqs(SampleItems, MaxArrayLen)}

RECURSIVE ArgsOver(_, _, _)
\* the argument objects over the properties props[k..]: a required property is
\* present, an optional one present or omitted
ArgsOver(d, k, acc) ==
    IF k > Len(d.properties) THEN {acc}
    ELSE LET p == d.properties[k]
             required == \E i \in 1..Len(d.required) : d.required[i] = p.field
             with == UNION {ArgsOver(d, k + 1, Append(acc, Arg(p.field, val))) :
                               val \in SampleValues(d.name, p)}
         IN  IF required THEN with ELSE with \cup ArgsOver(d, k + 1, acc)

\* arguments that satisfy descriptor d's inputSchema
ValidArgs(d) == ArgsOver(d, 1, <<>>)

ValidCalls ==
    UNION {{CallRequest(DeclaredDescriptors[i].name, a) : a \in ValidArgs(DeclaredDescriptors[i])} :
              i \in 1..Len(DeclaredDescriptors)}

\* one typical argument object per operation: every property present
TypicalValue(p) ==
    IF p.enum # <<>> THEN StrVal(<<p.enum[1]>>)
    ELSE CASE p.type = "string" -> StrVal(<<"x", "\n", "chainId", "10143", ";">>)
           [] p.type = "number" -> NumVal(3)
           [] p.type = "boolean" -> BoolVal(TRUE)
           [] p.type = "array" -> ArrVal(<< <<"Transfer", "(", "x">> >>)
TypicalArgs(d) == [k \in 1..Len(d.properties) |-> Arg(d.properties[k].field, TypicalValue(d.properties[k]))]

UnknownNames == {"nonexistent_tool", "validate"}

\* the requests of the start-to-serve specification
Workload ==
    {ListRequest}
    \cup {CallRequest(DeclaredDescriptors[i].name, TypicalArgs(DeclaredDescriptors[i])) :
             i \in 1..Len(DeclaredDescriptors)}
    \cup {CallRequest(n, <<>>) : n \in UnknownNames}
    \cup {CallRequest("nonexistent_tool", TypicalArgs(DeclaredDescriptors[1]))}
    \cup {CallRequest("check_gas_optimization", <<Arg("code", StrVal(<<>>))>>)}
    \cup {CallRequest("generate_migration_checklist",
                       <<Arg("complexity", StrVal(<<c>>))>>) :
             c \in {"moderate", "complex"}}

-----------------------------------------------------------------------------
(* Start-up and request handling *)

Init ==
    /\ pc = "new"
    /\ instances = <<>>
    /\ tools = <<>>
    /\ regPos = <<1, 1>>
    /\ overwrites = 0
    /\ handlers = {}
    /\ connected = FALSE
    /\ clock = 0
    /\ requests = <<>>
    /\ status = <<>>
    /\ responses = <<>>
    /\ executed = <<>>
    /\ NoNonceManager

serving == <<requests, status, responses, executed, clock>>

\* constructor(): new Server(...), this.tools = new Map(), and the array literal
\* of initializeTools
Construct ==
    /\ pc = "new"
    /\ tools' = <<>>
    /\ instances' = NewToolInstances
    /\ regPos' = <<1, 1>>
    /\ pc' = "initializeTools"
    /\ UNCHANGED <<managed, overwrites, handlers, connected, serving>>

\* the position after <<i, j>> in the nested forEach
NextRegPos(insts, pos) ==
    IF pos[2] < Len(getTools(insts[pos[1]])) THEN <<pos[1], pos[2] + 1>>
    ELSE <<pos[1] + 1, 1>>

\* skip tool objects that declare nothing
RECURSIVE SkipEmpty(_, _)
SkipEmpty(insts, pos) ==
    IF pos[1] <= Len(insts) /\ Len(getTools(insts[pos[1]])) = 0
    THEN SkipEmpty(insts, <<pos[1] + 1, 1>>) ELSE pos

\* one iteration of the inner forEach: this.tools.set(t.name, tool)
Register ==
    /\ pc = "initializeTools"
    /\ regPos[1] <= Len(instances)
    /\ LET t == getTools(instances[regPos[1]])[regPos[2]]
       IN  /\ tools' = MapSet(tools, t.name, regPos[1])
           /\ overwrites' = IF MapHas(tools, t.name) THEN overwrites + 1 ELSE overwrites
    /\ regPos' = SkipEmpty(instances, NextRegPos(instances, regPos))
    /\ UNCHANGED <<managed, pc, instances, handlers, connected, serving>>

\* a constructor that installs the handlers without waiting for the
\* registration loops to end
SetupHandlersEarly ==
    /\ pc = "initializeTools"
    /\ handlers' = {"tools/list", "tools/call"}
    /\ pc' = "constructed"
    /\ UNCHANGED <<managed, instances, tools, regPos, overwrites, connected, serving>>

\* setupHandlers(), called when initializeTools has returned
SetupHandlers ==
    /\ pc = "initializeTools"
    /\ regPos[1] > Len(instances)
    /\ handlers' = {"tools/list", "tools/call"}
    /\ pc' = "constructed"
    /\ UNCHANGED <<managed, instances, tools, regPos, overwrites, connected, serving>>

\* run(): the transport is connected
Run ==
    /\ pc = "constructed"
    /\ connected' = TRUE
    /\ pc' = "running"
    /\ UNCHANGED <<managed, instances, tools, regPos, overwrites, handlers, serving>>

\* the transport hands a request to the server
Receive(req) ==
    /\ connected
    /\ req.method \in handlers
    /\ Len(requests) < MaxRequests
    /\ requests' = Append(requests, req)
    /\ status' = Append(status, "pending")
    /\ responses' = Append(responses, NoResponse)
    /\ executed' = Append(executed, NoCall)
    /\ clock' = clock + 1
    /\ UNCHANGED <<managed, pc, instances, tools, regPos, overwrites, handlers, connected>>

\* handlers that remember a missing name: a call by an unknown name registers
\* the name for the first tool object before it fails
HandleRegistering(i) ==
    /\ i \in 1..Len(requests)
    /\ status[i] = "pending"
    /\ \A j \in 1..(i - 1) : status[j] # "pending"
    /\ status' = [status EXCEPT ![i] = "handled"]
    /\ IF requests[i].method = "tools/list"
       THEN /\ responses' = [responses EXCEPT ![i] = ListToolsHandler(tools, instances)]
            /\ UNCHANGED <<executed, tools>>
       ELSE /\ responses' = [responses EXCEPT ![i] =
                   CallToolHandler(tools, instances, requests[i].name, requests[i].args)]
            /\ executed' = [executed EXCEPT ![i] =
                   CallToolExecuted(tools, instances, requests[i].name, requests[i].args)]
            /\ tools' = IF MapHas(tools, requests[i].name) THEN tools
                        ELSE MapSet(tools, requests[i].name, 1)
    /\ UNCHANGED <<managed, pc, instances, regPos, overwrites, handlers, connected,
                   requests, clock>>

\* handlers of a server that an error leaves broken: once a request has
\* failed, every later request fails with the same error
HandleAborting(i) ==
    /\ i \in 1..Len(requests)
    /\ status[i] = "pending"
    /\ \A j \in 1..(i - 1) : status[j] # "pending"
    /\ status' = [status EXCEPT ![i] = "handled"]
    /\ IF \E j \in 1..(i - 1) : responses[j].kind = "error"
       THEN /\ responses' = [responses EXCEPT ![i] =
                   responses[CHOOSE j \in 1..(i - 1) : responses[j].kind = "error"]]
            /\ UNCHANGED executed
       ELSE IF requests[i].method = "tools/list"
       THEN /\ responses' = [responses EXCEPT ![i] = ListToolsHandler(tools, instances)]
            /\ UNCHANGED executed
       ELSE /\ responses' = [responses EXCEPT ![i] =
                   CallToolHandler(tools, instances, requests[i].name, requests[i].args)]
            /\ executed' = [executed EXCEPT ![i] =
                   CallToolExecuted(tools, instances, requests[i].name, requests[i].args)]
    /\ UNCHANGED <<managed, pc, instances, tools, regPos, overwrites, handlers, connected,
                   requests, clock>>

\* the handler of request i runs (handlers start in arrival order; none of them
\* suspends before its result is computed)
Handle(i) ==
    /\ i \in 1..Len(requests)
    /\ status[i] = "pending"
    /\ \A j \in 1..(i - 1) : status[j] # "pending"
    /\ status' = [status EXCEPT ![i] = "handled"]
    /\ IF requests[i].method = "tools/list"
       THEN /\ responses' = [responses EXCEPT ![i] = ListToolsHandler(tools, instances)]
            /\ UNCHANGED executed
       ELSE /\ responses' = [responses EXCEPT ![i] =
                   CallToolHandler(tools, instances, requests[i].name, requests[i].args)]
            /\ executed' = [executed EXCEPT ![i] =
                   CallToolExecuted(tools, instances, requests[i].name, requests[i].args)]
    /\ UNCHANGED <<managed, pc, instances, tools, regPos, overwrites, handlers, connected,
                   requests, clock>>

\* the result or the error of request i is sent back to its caller
Deliver(i) ==
    /\ i \in 1..Len(requests)
    /\ status[i] = "handled"
    /\ status' = [status EXCEPT ![i] = "delivered"]
    /\ UNCHANGED <<managed, pc, instances, tools, regPos, overwrites, handlers, connected,
                   requests, responses, executed, clock>>

Next ==
    \/ Construct
    \/ Register
    \/ SetupHandlers
    \/ Run
    \/ \E req \in Workload : Receive(req)
    \/ \E i \in 1..MaxRequests : Handle(i)
    \/ \E i \in 1..MaxRequests : Deliver(i)

Spec == Init /\ [][Next]_vars

-----------------------------------------------------------------------------
(* One dispatch on a started server, over all schema-valid arguments *)

RECURSIVE RegistryAfter(_, _, _)
\* the registry initializeTools leaves: the fold of its Map.set calls
RegistryAfter(insts, pos, m) ==
    IF pos[1] > Len(insts) THEN m
    ELSE RegistryAfter(insts, SkipEmpty(insts, NextRegPos(insts, pos)),
                       MapSet(m, getTools(insts[pos[1]])[pos[2]].name, pos[1]))

\* the server after `new MonadMigrationServer()` and run(), with one request received
InitDispatch ==
    /\ pc = "running"
    /\ instances = NewToolInstances
    /\ tools = RegistryAfter(NewToolInstances, SkipEmpty(NewToolInstances, <<1, 1>>), <<>>)
    /\ regPos = <<Len(NewToolInstances) + 1, 1>>
    /\ overwrites = 0
    /\ handlers = {"tools/list", "tools/call"}
    /\ connected = TRUE
    /\ clock = 1
    /\ \E req \in ValidCalls : requests = <<req>>
    /\ status = <<"pending">>
    /\ responses = <<NoResponse>>
    /\ executed = <<NoCall>>
    /\ NoNonceManager

NextDispatch ==
    \/ \E i \in 1..MaxRequests : Handle(i)
    \/ \E i \in 1..MaxRequests : Deliver(i)

SpecDispatch == InitDispatch /\ [][NextDispatch]_vars

\* the started server of Spec is the server InitDispatch starts from
StartedAsDispatched ==
    pc = "running" =>
        /\ instances = NewToolInstances
        /\ tools = RegistryAfter(NewToolInstances, SkipEmpty(NewToolInstances, <<1, 1>>), <<>>)
        /\ regPos = <<Len(NewToolInstances) + 1, 1>>
        /\ overwrites = 0
        /\ handlers = {"tools/list", "tools/call"}
        /\ connected

-----------------------------------------------------------------------------
(* Reading requests and reports *)

\* request i has been handled (its outcome is known)
Handled(i) == i \in 1..Len(requests) /\ status[i] # "pending"

HandledCalls(name) ==
    {i \in 1..Len(requests) : Handled(i) /\ requests[i].method = "tools/call"
                                /\ requests[i].name = name}
HandledLists == {i \in 1..Len(requests) : Handled(i) /\ requests[i].method = "tools/list"}

\* the text of a report
TextOf(r) == r.content[1].text

IsReport(r) ==
    /\ r.kind = "result"
    /\ Len(r.content) = 1
    /\ r.content[1].type = "text"

\* the number n in lo..hi that the text shows between `before` and `after`
ShownNumber(text, before, after, lo, hi) ==
    {n \in lo..hi : Includes(text, <<before, ToString(n), after>>)}

\* positions of the text where the line of check `name` starts with mark m
CheckLine(text, m, name) == Includes(text, <<m, " **", name>>)

-----------------------------------------------------------------------------
(* Listing and dispatch *)

\* how often descriptor d stands in the list ds
Occurrences(ds, d) == Cardinality({i \in 1..Len(ds) : ds[i] = d})

\* C1: every answer to a list-tools request is exactly the declared descriptors:
\* the seven modules' lists concatenated in registration order, 18 in all, each
\* descriptor present once.
C1_ListReturnsDeclaredOnce ==
    \A i \in HandledLists :
        /\ responses[i].kind = "tools"
        /\ responses[i].tools = DeclaredDescriptors
        /\ Len(responses[i].tools) = 18
        /\ \A k \in 1..Len(responses[i].tools) :
              Occurrences(responses[i].tools, responses[i].tools[k]) = 1

\* what the list handler does return: each module's whole list once for every
\* name the module has registered (4*4 + 3*3 + 2*2 + 2*2 + 2*2 + 2*2 + 3*3 = 50)
C1_ListRepeatsPerRegisteredName ==
    \A i \in HandledLists :
        /\ Len(responses[i].tools) = 50
        /\ \A k \in 1..Len(DeclaredDescriptors) :
              LET d == DeclaredDescriptors[k]
                  owner == instances[MapGet(tools, d.name)]
              IN  Occurrences(responses[i].tools, d) = Len(getTools(owner))

C1_ListAnswered == \E i \in HandledLists : responses[i].kind = "tools"

\* C2: a call whose name is not registered fails with the not-found error that
\* names the requested operation, and no module's executeTool is invoked for it.
C2_UnknownNameNotFound ==
    \A i \in 1..Len(requests) :
        (Handled(i) /\ requests[i].method = "tools/call" /\ ~MapHas(tools, requests[i].name)) =>
            /\ responses[i].kind = "error"
            /\ responses[i].message = <<"Tool ", requests[i].name, " not found">>
            /\ executed[i] = NoCall

C2_UnknownNameHandled ==
    \E i \in HandledCalls("nonexistent_tool") :
        /\ requests[i].args # <<>>
        /\ responses[i].kind = "error"

\* the modules that declare the name
DeclaringModules(insts, name) ==
    {k \in 1..Len(insts) : \E j \in 1..Len(getTools(insts[k])) : getTools(insts[k])[j].name = name}

\* the outcome is the default branch of some module's executeTool
IsUnknownTool(r) == r.kind = "error" /\ r.message[1] = "Unknown tool: "

\* C3: the registry maps every registered name to the module that declares it;
\* a call by a registered name runs that module's executeTool with the
\* caller's arguments unchanged and never ends in an 'Unknown tool' error.
C3_RoutedToDeclaringModule ==
    /\ \A e \in 1..Len(tools) : tools[e].value \in DeclaringModules(instances, tools[e].key)
    /\ \A i \in 1..Len(requests) :
          (Handled(i) /\ requests[i].method = "tools/call" /\ MapHas(tools, requests[i].name)) =>
              /\ executed[i] # NoCall
              /\ \E k \in DeclaringModules(instances, requests[i].name) :
                    executed[i].module = instances[k].cls
              /\ executed[i].name = requests[i].name
              /\ executed[i].args = requests[i].args
              /\ ~IsUnknownTool(responses[i])

C3_RegisteredNameHandled ==
    \E i \in HandledCalls("generate_migration_checklist") :
        /\ executed[i].module = "ValidationTool"
        /\ executed[i].args = requests[i].args
        /\ requests[i].args # <<>>

\* the descriptors the tool objects hold, and their number
HeldDescriptors(insts) == Flatten([k \in 1..Len(insts) |-> getTools(insts[k])])
DeclaredCount(insts) == Len(HeldDescriptors(insts))

\* C4: names are unique across the modules: no registration overwrites an
\* earlier one, and once the registry is built it holds one entry per declared
\* descriptor, each name owned by exactly one module.
C4_NamesUnique ==
    /\ overwrites = 0
    /\ \A a, b \in 1..Len(tools) : tools[a].key = tools[b].key => a = b
    /\ pc \in {"constructed", "running"} =>
          /\ Len(tools) = DeclaredCount(instances)
          /\ \A e \in 1..Len(tools) :
                /\ Cardinality(DeclaringModules(instances, tools[e].key)) = 1
                /\ Cardinality({j \in 1..Len(getTools(instances[tools[e].value])) :
                                   getTools(instances[tools[e].value])[j].name = tools[e].key}) = 1

C4_RegistryBuilt == pc = "constructed" /\ Len(tools) = 18 /\ overwrites = 0

\* the required fields of each operation as tabulated in the specification
SpecRequired ==
    << <<"migrate_contract_deployment", <<"originalCode", "contractType">> >>,
       <<"optimize_contract_size", <<"contractCode">> >>,
       <<"add_monad_gas_optimizations", <<"contractCode">> >>,
       <<"generate_monad_deployment_script", <<"contractName">> >>,
       <<"migrate_web3_config", <<"originalConfig", "framework">> >>,
       <<"optimize_rpc_calls", <<"code", "library">> >>,
       <<"implement_batch_calls", <<"functions">> >>,
       <<"optimize_gas_estimation", <<"code">> >>,
       <<"implement_gas_limit_strategy", <<"transactionTypes">> >>,
       <<"implement_multicall_pattern", <<"calls">> >>,
       <<"optimize_concurrent_calls", <<"originalCode">> >>,
       <<"setup_envio_indexer", <<"contractAddress", "events">> >>,
       <<"configure_goldsky_subgraph", <<"contractName", "events">> >>,
       <<"implement_concurrent_transactions", <<"transactionCount">> >>,
       <<"optimize_nonce_management", <<"walletType">> >>,
       <<"validate_monad_migration", <<"projectType", "codeBase">> >>,
       <<"check_gas_optimization", <<"code">> >>,
       <<"generate_migration_checklist", <<"complexity">> >> >>

\* the fields the specification calls optional
SpecOptional ==
    << <<"migrate_contract_deployment", "optimizationLevel">>,
       <<"optimize_contract_size", "targetSize">>,
       <<"add_monad_gas_optimizations", "functions">>,
       <<"generate_monad_deployment_script", "constructorArgs">>,
       <<"generate_monad_deployment_script", "useCreateX">> >>

\* descriptor d agrees with the table
AsTabulated(d) ==
    /\ \E r \in 1..Len(SpecRequired) : SpecRequired[r][1] = d.name /\ SpecRequired[r][2] = d.required
    /\ \A o \in 1..Len(SpecOptional) :
          SpecOptional[o][1] = d.name =>
              /\ \E p \in 1..Len(d.properties) : d.properties[p].field = SpecOptional[o][2]
              /\ \A q \in 1..Len(d.required) : d.required[q] # SpecOptional[o][2]

\* C5: every declared descriptor, as held by its module and as listed to a
\* caller, has exactly the required list of the specification's table, all 18
\* tabulated names are declared, and the five optional fields are properties
\* that are not required.
C5_RequiredAsTabulated ==
    /\ \A k \in 1..Len(instances) : \A j \in 1..Len(getTools(instances[k])) :
          AsTabulated(getTools(instances[k])[j])
    /\ instances # <<>> =>
          {SpecRequired[r][1] : r \in 1..Len(SpecRequired)}
            = {HeldDescriptors(instances)[k].name : k \in 1..Len(HeldDescriptors(instances))}
    /\ \A i \in HandledLists : \A k \in 1..Len(responses[i].tools) :
          AsTabulated(responses[i].tools[k])

C5_DescriptorsListed ==
    \E i \in HandledLists :
        \E k \in 1..Len(responses[i].tools) :
            /\ responses[i].tools[k].name = "generate_monad_deployment_script"
            /\ responses[i].tools[k].required = <<"contractName">>

-----------------------------------------------------------------------------
(* The analysers' reports *)

\* the code string of a request holds the marker
Contains(val, m) == val.t = "string" /\ \E k \in 1..Len(val.v) : WordHolds(val.v[k], m)

\* the five checks of the validation report, by name
ValidationCheckNames ==
    {"Network Configuration", "Gas Price Optimization", "Multicall Integration",
     "Concurrent Processing", "Gas Limit Management"}

\* the checks the report marks as passed
MarkedPassed(text, names) == {n \in names : CheckLine(text, "(pass)", n)}
MarkedFailed(text, names) == {n \in names : CheckLine(text, "(fail)", n)}

\* how many result lines the text has
MarkCount(text) == Cardinality({k \in 1..Len(text) : text[k] \in {"(pass)", "(fail)"}})

\* C6: validate_monad_migration reports five checks and the score
\* round(100 * passed / 5): one of 0, 20, 40, 60, 80, 100, equal to 100 exactly
\* when all five pass; a codeBase with "10143", "52000000000", "multicall",
\* "Promise.all" and "gasLimit" and without "estimateGas" scores 100.
C6_ScoreIsRoundedShare ==
    \A i \in HandledCalls("validate_monad_migration") :
        requests[i] \in ValidCalls =>
            /\ IsReport(responses[i])
            /\ LET text == TextOf(responses[i])
                   codeBase == Field(requests[i].args, "codeBase")
                   passed == MarkedPassed(text, ValidationCheckNames)
                   failed == MarkedFailed(text, ValidationCheckNames)
                   p == Cardinality(passed)
                   scores == ShownNumber(text, "### Migration Score: ", "% (", 0, 100)
               IN  /\ MarkCount(text) = 5
                   /\ passed \cup failed = ValidationCheckNames
                   /\ passed \cap failed = {}
                   /\ Includes(text, <<"% (", ToString(p), "/", "5", " checks passed)">>)
                   /\ Cardinality(scores) = 1
                   /\ \A score \in scores :
                         /\ 2 * 5 * score <= 2 * 100 * p + 5
                         /\ 2 * 100 * p + 5 < 2 * 5 * (score + 1)
                         /\ score \in {0, 20, 40, 60, 80, 100}
                         /\ score = 100 <=> p = 5
                         /\ ( /\ \A m \in {"10143", "52000000000", "multicall", "Promise.all",
                                           "gasLimit"} : Contains(codeBase, m)
                              /\ ~Contains(codeBase, "estimateGas") ) => score = 100

C6_FullScoreReported ==
    \E i \in HandledCalls("validate_monad_migration") :
        /\ \A m \in {"10143", "52000000000", "multicall", "Promise.all", "gasLimit"} :
              Contains(Field(requests[i].args, "codeBase"), m)
        /\ ~Contains(Field(requests[i].args, "codeBase"), "estimateGas")
        /\ Includes(TextOf(responses[i]), <<"### Migration Score: ", "100", "% (">>)

\* the five checks of the gas report, by name
GasCheckNames ==
    {"Hardcoded Gas Values", "Explicit Gas Limits", "No Gas Estimation",
     "EIP-1559 Support", "Batch Operations"}

\* the handled check_gas_optimization requests whose code is the empty string
EmptyCodeChecks ==
    {i \in HandledCalls("check_gas_optimization") :
        requests[i].args = <<Arg("code", StrVal(<<>>))>>}

\* C7: check_gas_optimization on the empty string raises no error and reports
\* all five checks, "No Gas Estimation" passed and the other four failed; the
\* figure the report carries for that outcome, the tally of passed
\* high-priority checks, is 0 of 3, and the whole report is the same each time.
C7_EmptyCodeReport ==
    /\ \A i \in EmptyCodeChecks :
          /\ IsReport(responses[i])
          /\ LET text == TextOf(responses[i])
             IN  /\ MarkCount(text) = 5
                 /\ MarkedPassed(text, GasCheckNames) = {"No Gas Estimation"}
                 /\ MarkedFailed(text, GasCheckNames) = GasCheckNames \ {"No Gas Estimation"}
                 /\ Includes(text, <<"### High Priority Optimizations: ", "0", "/", "3">>)
    /\ \A i, j \in EmptyCodeChecks : responses[i] = responses[j]

C7_EmptyCodeCheckedTwice ==
    \E i, j \in EmptyCodeChecks :
        /\ i # j
        /\ IsReport(responses[i])
        /\ IsReport(responses[j])

\* the items of the report's core task list, in order: the texts that follow an
\* item prefix between the list's header and the blank line that ends the list
CoreItems(text) ==
    LET h == CHOOSE k \in 1..Len(text) : text[k] = "### Core Migration Tasks"
        e == CHOOSE k \in (h + 1)..Len(text) :
                 text[k] = "\n\n" /\ \A m \in (h + 1)..(k - 1) : text[m] # "\n\n"
        at == SelectSeq([k \in 1..Len(text) |-> k],
                        LAMBDA k : h < k /\ k < e /\ text[k] = "- [ ] ")
    IN  [n \in 1..Len(at) |-> text[at[n] + 1]]

\* the complexity a handled checklist request asks for
ComplexityOf(i) == Field(requests[i].args, "complexity")

IsPrefixOf(s, t) == Len(s) <= Len(t) /\ s = SubSeq(t, 1, Len(s))

\* C8: the core task list of generate_migration_checklist has 5 items for
\* "simple", 11 for "moderate" and 21 for "complex", and of any two such lists
\* the shorter is a prefix of the longer.
C8_CoreListGrowsByPrefix ==
    /\ \A i \in HandledCalls("generate_migration_checklist") :
          /\ IsReport(responses[i])
          /\ ComplexityOf(i) = StrVal(<<"simple">>) => Len(CoreItems(TextOf(responses[i]))) = 5
          /\ ComplexityOf(i) = StrVal(<<"moderate">>) => Len(CoreItems(TextOf(responses[i]))) = 11
          /\ ComplexityOf(i) = StrVal(<<"complex">>) => Len(CoreItems(TextOf(responses[i]))) = 21
    /\ \A i, j \in HandledCalls("generate_migration_checklist") :
          LET s == CoreItems(TextOf(responses[i]))
              t == CoreItems(TextOf(responses[j]))
          IN  Len(s) <= Len(t) => IsPrefixOf(s, t)

C8_TwoChecklistsRendered ==
    \E i, j \in HandledCalls("generate_migration_checklist") :
        /\ ComplexityOf(i) = StrVal(<<"moderate">>)
        /\ ComplexityOf(j) = StrVal(<<"complex">>)
        /\ Len(CoreItems(TextOf(responses[i]))) = 11
        /\ Len(CoreItems(TextOf(responses[j]))) = 21

\* the operation names that the schema-valid calls cover
ValidCallNames == {req.name : req \in ValidCalls}

\* C9: a dispatch of any of the 18 operations with schema-valid arguments
\* returns a report of one text element whose text is not empty, never an
\* error; the checklist report contains the chain id 10143.
C9_ValidCallsReport ==
    /\ Cardinality(ValidCallNames) = 18
    /\ \A i \in 1..Len(requests) :
          (Handled(i) /\ requests[i] \in ValidCalls) =>
              /\ IsReport(responses[i])
              /\ \E k \in 1..Len(TextOf(responses[i])) : TextOf(responses[i])[k] # ""
              /\ requests[i].name = "generate_migration_checklist" =>
                    \E k \in 1..Len(TextOf(responses[i])) : TextOf(responses[i])[k] = "10143"

C9_EmptyArrayReported ==
    \E i \in HandledCalls("setup_envio_indexer") :
        /\ Field(requests[i].args, "events") = ArrVal(<<>>)
        /\ IsReport(responses[i])

-----------------------------------------------------------------------------
(* Frame, start-up order and outstanding requests *)

\* the registry and the tool objects of a freshly started server
BuiltRegistry == RegistryAfter(NewToolInstances, SkipEmpty(NewToolInstances, <<1, 1>>), <<>>)

\* the response a request gets when it is the only one a fresh server serves
AloneResponse(req) ==
    IF req.method = "tools/list" THEN ListToolsHandler(BuiltRegistry, NewToolInstances)
    ELSE CallToolHandler(BuiltRegistry, NewToolInstances, req.name, req.args)

\* a step that receives, handles or delivers a request
ServingStep == serving' # serving

\* C11: no step that serves a request, whether it succeeds or fails, changes
\* the registry or a module's descriptor list (the configuration table is a
\* set of constants no handler assigns); every answer to a list request is the
\* answer of the freshly built server, whatever was served before it.
C11_RequestsChangeNothing ==
    /\ [][ServingStep => UNCHANGED <<tools, instances, overwrites, regPos>>]_vars
    /\ [](\A i \in HandledLists : responses[i] = AloneResponse(ListRequest))
    /\ [](\A i, j \in HandledLists : responses[i] = responses[j])

C11_ListAfterFailedCall ==
    \E i \in HandledCalls("nonexistent_tool") : \E j \in HandledLists :
        /\ i < j
        /\ responses[i].kind = "error"
        /\ tools = BuiltRegistry
        /\ instances = NewToolInstances

\* the registry holds every name of every module
RegistryComplete ==
    /\ regPos[1] > Len(instances)
    /\ instances # <<>>
    /\ \A k \in 1..Len(instances) : \A j \in 1..Len(getTools(instances[k])) :
          MapGet(tools, getTools(instances[k])[j].name) = k

\* C12: the registry is completely built before the handlers are installed
\* and before the transport is connected; no request is received or handled
\* against an empty or partly populated registry.
C12_RegistryBuiltBeforeServing ==
    /\ (handlers # {} \/ connected \/ requests # <<>>) => RegistryComplete
    /\ connected => handlers = {"tools/list", "tools/call"}
    /\ requests # <<>> => tools # <<>>

C12_ServedOnBuiltRegistry ==
    /\ \E i \in 1..Len(requests) : Handled(i)
    /\ RegistryComplete
    /\ Len(tools) = 18

\* C13: whatever requests are outstanding together and however their handling
\* and delivery interleave, each handled request has the response it gets when
\* issued alone; a failed request leaves the others as they are, handled or
\* still to be handled.
C13_OutstandingRequestsIndependent ==
    \A i \in 1..Len(requests) :
        /\ Handled(i) => responses[i] = AloneResponse(requests[i])
        /\ ~Handled(i) => (status[i] = "pending" /\ responses[i] = NoResponse)

C13_FailureBesideSuccess ==
    \E i, j \in 1..Len(requests) :
        /\ i # j
        /\ status[i] = "handled" /\ status[j] = "handled"
        /\ responses[i].kind = "error"
        /\ IsReport(responses[j])

-----------------------------------------------------------------------------
(* MonadNetworkConfig: the static methods *)

\* MonadNetworkConfig.TEST_TOKENS, its entries in insertion order
TEST_TOKENS ==
    << [name |-> "USDC", address |-> "0xf817257fed379853cDe0fa4F97AB987181B1E5Ea"],
       [name |-> "USDT", address |-> "0x88b8E2161DEDC77EF4ab7585569D2415a1C1055D"],
       [name |-> "WBTC", address |-> "0xcf5a6076cfa32686c0Df13aBaDa2b40dec133F1d"],
       [name |-> "WETH", address |-> "0xB5a30b0FDc42e3E9760Cb8449Fb37"],
       [name |-> "WSOL", address |-> "0x5387C85A4965769f6B0Df430638a1388493486F1"] >>

\* the lower-case form of one character
LowerCaseChar(c) ==
    CASE c = "A" -> "a" [] c = "B" -> "b" [] c = "C" -> "c" [] c = "D" -> "d"
      [] c = "E" -> "e" [] c = "F" -> "f" [] c = "G" -> "g" [] c = "H" -> "h"
      [] c = "I" -> "i" [] c = "J" -> "j" [] c = "K" -> "k" [] c = "L" -> "l"
      [] c = "M" -> "m" [] c = "N" -> "n" [] c = "O" -> "o" [] c = "P" -> "p"
      [] c = "Q" -> "q" [] c = "R" -> "r" [] c = "S" -> "s" [] c = "T" -> "t"
      [] c = "U" -> "u" [] c = "V" -> "v" [] c = "W" -> "w" [] c = "X" -> "x"
      [] c = "Y" -> "y" [] c = "Z" -> "z" [] OTHER -> c

RECURSIVE toLowerCase(_)
\* String.prototype.toLowerCase
toLowerCase(s) ==
    IF Len(s) = 0 THEN s
    ELSE LowerCaseChar(SubSeq(s, 1, 1)) \o toLowerCase(SubSeq(s, 2, Len(s)))

\* null
Null == [t |-> "null", v |-> <<>>]

\* a value returned by a static method
Returned(val) == [kind |-> "value", value |-> val]

\* MonadNetworkConfig.isCanonicalContract
isCanonicalContract(address) ==
    LET lowerAddress == toLowerCase(address)
    IN  \E i \in 1..Len(CONTRACTS) : toLowerCase(CONTRACTS[i].address) = lowerAddress

\* a lookup that compares the addresses as they are written
getContractNameExact(address) ==
    LET matches == {i \in 1..Len(CONTRACTS) : CONTRACTS[i].address = address}
    IN  IF matches = {} THEN Null
        ELSE StrVal(<<CONTRACTS[CHOOSE i \in matches : \A k \in matches : i <= k].name>>)

\* MonadNetworkConfig.getContractName: the first entry, in insertion order,
\* whose lower-cased address is the lower-cased argument; null when there is none
getContractName(address) ==
    LET lowerAddress == toLowerCase(address)
        matches == {i \in 1..Len(CONTRACTS) : toLowerCase(CONTRACTS[i].address) = lowerAddress}
    IN  IF matches = {} THEN Null
        ELSE StrVal(<<CONTRACTS[CHOOSE i \in matches : \A k \in matches : i <= k].name>>)

\* a bigint, held as its limbs
BigIntVal(b) == [t |-> "bigint", v |-> b]

\* MonadNetworkConfig.getOptimizedTxParams: gasLimit is a bigint or undefined
\* (0n and undefined are falsy)
getOptimizedTxParams(gasLimit) ==
    [gasLimit             |-> IF gasLimit = Undefined \/ gasLimit = BigIntVal(BigInt(0))
                              THEN GAS_CONFIG.standardTransferGas ELSE gasLimit.v,
     gasPrice             |-> GAS_CONFIG.defaultGasPrice,
     maxFeePerGas         |-> BigAdd(GAS_CONFIG.baseFeePerGas, GAS_CONFIG.maxPriorityFeePerGas),
     maxPriorityFeePerGas |-> GAS_CONFIG.maxPriorityFeePerGas,
     type                 |-> 2]

\* a lookup that hands out the testnet record for every environment
getNetworkConfigForAnyEnvironment(environment) == Returned(TESTNET)

\* MonadNetworkConfig.getNetworkConfig: the parameter defaults to 'testnet'
getNetworkConfig(environment) ==
    LET env == IF environment = Undefined THEN StrVal(<<"testnet">>) ELSE environment
    IN  IF env = StrVal(<<"testnet">>) THEN Returned(TESTNET)
        ELSE Throw(<<"Mainnet configuration not yet available">>)

-----------------------------------------------------------------------------
(* Calls of the static methods, two at a time *)

\* a call of a static method with one argument
StaticCall(method, arg) == [method |-> method, name |-> "", args |-> <<arg>>]

\* the upper-case form of one character
UpperCaseChar(c) ==
    CASE c = "a" -> "A" [] c = "b" -> "B" [] c = "c" -> "C" [] c = "d" -> "D"
      [] c = "e" -> "E" [] c = "f" -> "F" [] c = "x" -> "X" [] OTHER -> c

RECURSIVE UpperCased(_)
UpperCased(s) ==
    IF Len(s) = 0 THEN s
    ELSE UpperCaseChar(SubSeq(s, 1, 1)) \o UpperCased(SubSeq(s, 2, Len(s)))

\* the addresses of a table, as written
AddressesOf(table) == {table[i].address : i \in 1..Len(table)}

\* addresses looked up: those of both tables as written, in lower and in upper
\* case, cut short by one character, lengthened by one, and the empty string
AddressSamples ==
    LET written == AddressesOf(CONTRACTS) \cup AddressesOf(TEST_TOKENS)
    IN  written
        \cup {toLowerCase(a) : a \in written}
        \cup {UpperCased(a) : a \in written}
        \cup {SubSeq(a, 1, Len(a) - 1) : a \in AddressesOf(CONTRACTS)}
        \cup {a \o "0" : a \in AddressesOf(CONTRACTS)}
        \cup {""}

\* gas limits passed to getOptimizedTxParams
GasLimitSamples ==
    {Undefined, BigIntVal(BigInt(0)), BigIntVal(BigInt(21000)), BigIntVal(BigInt(100000)),
     BigIntVal(BigMul(BigInt(3), BigInt(10 ^ 9)))}

\* environments passed to getNetworkConfig
EnvironmentSamples == {Undefined, StrVal(<<"testnet">>), StrVal(<<"mainnet">>)}

\* the pairs of calls made
StaticCallPairs ==
    {<<StaticCall("isCanonicalContract", StrVal(<<a>>)),
       StaticCall("getContractName", StrVal(<<a>>))>> :
        a \in AddressSamples}
    \cup {<<StaticCall("getOptimizedTxParams", g), StaticCall("getNetworkConfig", e)>> :
             g \in GasLimitSamples, e \in EnvironmentSamples}

\* the configuration table is static: it is read without a server
InitConfig ==
    /\ pc = "new"
    /\ instances = <<>>
    /\ tools = <<>>
    /\ regPos = <<1, 1>>
    /\ overwrites = 0
    /\ handlers = {}
    /\ connected = FALSE
    /\ clock = 0
    /\ requests \in StaticCallPairs
    /\ status = <<"pending", "pending">>
    /\ responses = <<NoResponse, NoResponse>>
    /\ executed = <<NoCall, NoCall>>
    /\ NoNonceManager

\* call i returns (or throws)
Returns(i, outcome) ==
    /\ status' = [status EXCEPT ![i] = "handled"]
    /\ responses' = [responses EXCEPT ![i] = outcome]
    /\ UNCHANGED <<managed, pc, instances, tools, regPos, overwrites, handlers, connected,
                   requests, executed, clock>>

IsCanonicalContractCall(i) ==
    /\ status[i] = "pending"
    /\ requests[i].method = "isCanonicalContract"
    /\ Returns(i, Returned(BoolVal(isCanonicalContract(requests[i].args[1].v[1]))))

GetContractNameCall(i) ==
    /\ status[i] = "pending"
    /\ requests[i].method = "getContractName"
    /\ Returns(i, Returned(getContractName(requests[i].args[1].v[1])))

GetOptimizedTxParamsCall(i) ==
    /\ status[i] = "pending"
    /\ requests[i].method = "getOptimizedTxParams"
    /\ Returns(i, Returned(getOptimizedTxParams(requests[i].args[1])))

GetNetworkConfigCall(i) ==
    /\ status[i] = "pending"
    /\ requests[i].method = "getNetworkConfig"
    /\ Returns(i, getNetworkConfig(requests[i].args[1]))

NextConfig ==
    \/ \E i \in 1..2 : IsCanonicalContractCall(i)
    \/ \E i \in 1..2 : GetContractNameCall(i)
    \/ \E i \in 1..2 : GetOptimizedTxParamsCall(i)
    \/ \E i \in 1..2 : GetNetworkConfigCall(i)

SpecConfig == InitConfig /\ [][NextConfig]_vars

-----------------------------------------------------------------------------
(* The configuration table *)

\* the handled calls of a static method
HandledStatic(method) ==
    {i \in 1..Len(requests) : Handled(i) /\ requests[i].method = method}

\* C14: the configuration constants are chain id 10143, default gas price
\* 52*10^9, base fee 50*10^9, priority fee 2*10^9, standard transfer gas 21000,
\* max contract size 131072, max log block range 100 and recommended batch size
\* 50; the default gas price is base fee plus priority fee; and these are the
\* values that getNetworkConfig and getOptimizedTxParams hand out.
C14_ConstantsAsStated ==
    /\ TESTNET.chainId = 10143
    /\ BigToString(GAS_CONFIG.defaultGasPrice) = "52000000000"
    /\ BigToString(GAS_CONFIG.baseFeePerGas) = "50000000000"
    /\ BigToString(GAS_CONFIG.maxPriorityFeePerGas) = "2000000000"
    /\ BigToString(GAS_CONFIG.standardTransferGas) = "21000"
    /\ OPTIMIZATION_CONSTANTS.MAX_CONTRACT_SIZE = 131072
    /\ OPTIMIZATION_CONSTANTS.MAX_BLOCK_RANGE_LOGS = 100
    /\ OPTIMIZATION_CONSTANTS.RECOMMENDED_BATCH_SIZE = 50
    /\ GAS_CONFIG.defaultGasPrice
         = BigAdd(GAS_CONFIG.baseFeePerGas, GAS_CONFIG.maxPriorityFeePerGas)
    /\ \A i \in HandledStatic("getOptimizedTxParams") :
          /\ responses[i].kind = "value"
          /\ BigToString(responses[i].value.gasPrice) = "52000000000"
          /\ BigToString(responses[i].value.maxPriorityFeePerGas) = "2000000000"
          /\ responses[i].value.maxFeePerGas = responses[i].value.gasPrice
          /\ requests[i].args[1] = Undefined =>
                BigToString(responses[i].value.gasLimit) = "21000"
    /\ \A i \in HandledStatic("getNetworkConfig") :
          responses[i].kind = "value" => responses[i].value.chainId = 10143

C14_DefaultParamsHandedOut ==
    \E i \in HandledStatic("getOptimizedTxParams") :
        /\ requests[i].args[1] = Undefined
        /\ BigToString(responses[i].value.gasLimit) = "21000"
        /\ BigToString(responses[i].value.maxFeePerGas) = "52000000000"

\* the two cases of each letter
LetterCases ==
    {<<"A", "a">>, <<"B", "b">>, <<"C", "c">>, <<"D", "d">>, <<"E", "e">>, <<"F", "f">>,
     <<"G", "g">>, <<"H", "h">>, <<"I", "i">>, <<"J", "j">>, <<"K", "k">>, <<"L", "l">>,
     <<"M", "m">>, <<"N", "n">>, <<"O", "o">>, <<"P", "p">>, <<"Q", "q">>, <<"R", "r">>,
     <<"S", "s">>, <<"T", "t">>, <<"U", "u">>, <<"V", "v">>, <<"W", "w">>, <<"X", "x">>,
     <<"Y", "y">>, <<"Z", "z">>}

\* strings s and t are equal when letter case is ignored
EqualIgnoringCase(s, t) ==
    /\ Len(s) = Len(t)
    /\ \A k \in 1..Len(s) :
          LET c == SubSeq(s, k, k)
              d == SubSeq(t, k, k)
          IN  c = d \/ <<c, d>> \in LetterCases \/ <<d, c>> \in LetterCases

\* the address a pair of lookups asks about
LookedUp == requests[1].args[1].v[1]

\* the CONTRACTS entries whose address is a when letter case is ignored
EntriesFor(a) == {k \in 1..Len(CONTRACTS) : EqualIgnoringCase(CONTRACTS[k].address, a)}

\* C15: isCanonicalContract(a) is true exactly when some CONTRACTS address equals
\* a ignoring letter case, which is exactly when getContractName(a) returns a
\* name; the name is that of the earliest-inserted such entry; for every other
\* address, those of TEST_TOKENS included, getContractName returns null.
C15_LookupIgnoresCase ==
    requests[1].method = "isCanonicalContract" =>
        LET entries == EntriesFor(LookedUp)
        IN  /\ Handled(1) => responses[1] = Returned(BoolVal(entries # {}))
            /\ Handled(2) =>
                  /\ entries # {} =>
                        \E k \in entries :
                            /\ \A m \in entries : k <= m
                            /\ responses[2] = Returned(StrVal(<<CONTRACTS[k].name>>))
                  /\ entries = {} => responses[2] = Returned(Null)
                  /\ (\E t \in 1..Len(TEST_TOKENS) :
                          EqualIgnoringCase(TEST_TOKENS[t].address, LookedUp))
                        => responses[2] = Returned(Null)
            /\ (Handled(1) /\ Handled(2)) =>
                  (responses[1].value = BoolVal(TRUE) <=> responses[2].value # Null)

C15_NameFoundInOtherCase ==
    /\ requests[1].method = "isCanonicalContract"
    /\ Handled(1)
    /\ Handled(2)
    /\ \E k \in 1..Len(CONTRACTS) :
          /\ LookedUp # CONTRACTS[k].address
          /\ responses[2] = Returned(StrVal(<<CONTRACTS[k].name>>))
          /\ responses[1] = Returned(BoolVal(TRUE))

-----------------------------------------------------------------------------
(* One dispatch of a known operation with an argument of unexpected shape *)

\* one value of every JSON type other than the declared one
WrongValues(p) ==
    {val \in {StrVal(<<"x">>), NumVal(3), BoolVal(TRUE), ArrVal(<< <<"x">> >>)} :
        val.t # p.type}

\* the entries of args without those of field f
Without(args, f) == SelectSeq(args, LAMBDA e : e.k # f)

\* the entries of args with field f set to val
WithField(args, f, val) == [k \in 1..Len(args) |-> IF args[k].k = f THEN Arg(f, val) ELSE args[k]]

\* the required properties of descriptor d
RequiredProps(d) ==
    {p \in {d.properties[k] : k \in 1..Len(d.properties)} :
        \E i \in 1..Len(d.required) : d.required[i] = p.field}

\* argument objects for d in which one required property is missing or holds
\* a value of another type, everything else as in a typical call
MalformedArgs(d) ==
    UNION {{Without(TypicalArgs(d), p.field)}
             \cup {WithField(TypicalArgs(d), p.field, val) : val \in WrongValues(p)} :
           p \in RequiredProps(d)}

MalformedCalls ==
    UNION {{CallRequest(DeclaredDescriptors[i].name, a) : a \in MalformedArgs(DeclaredDescriptors[i])} :
              i \in 1..Len(DeclaredDescriptors)}

\* the started server with one such request received
InitMalformed ==
    /\ pc = "running"
    /\ instances = NewToolInstances
    /\ tools = RegistryAfter(NewToolInstances, SkipEmpty(NewToolInstances, <<1, 1>>), <<>>)
    /\ regPos = <<Len(NewToolInstances) + 1, 1>>
    /\ overwrites = 0
    /\ handlers = {"tools/list", "tools/call"}
    /\ connected = TRUE
    /\ clock = 1
    /\ \E req \in MalformedCalls : requests = <<req>>
    /\ status = <<"pending">>
    /\ responses = <<NoResponse>>
    /\ executed = <<NoCall>>
    /\ NoNonceManager

SpecMalformed == InitMalformed /\ [][NextDispatch]_vars


\* the descriptor declared under the name
DescriptorOf(name) ==
    DeclaredDescriptors[CHOOSE k \in 1..Len(DeclaredDescriptors) : DeclaredDescriptors[k].name = name]

\* the required fields of the request's operation that are missing from its
\* arguments or hold a value of another type than the declared one
OffendingFields(req) ==
    {p.field : p \in {q \in RequiredProps(DescriptorOf(req.name)) :
                         Field(req.args, q.field).t # q.type}}

\* the message has the text as one of its parts
Mentions(message, text) == \E k \in 1..Len(message) : message[k] = text

\* C16: a known operation dispatched with a required argument missing or of
\* another type than declared fails, and the error names the operation and
\* the offending field.
C16_ShapeErrorNamesOperationAndField ==
    \A i \in 1..Len(requests) :
        ( /\ Handled(i)
          /\ requests[i].method = "tools/call"
          /\ requests[i].name \in DeclaredNames
          /\ OffendingFields(requests[i]) # {} ) =>
            /\ responses[i].kind = "error"
            /\ Mentions(responses[i].message, requests[i].name)
            /\ \E f \in OffendingFields(requests[i]) : Mentions(responses[i].message, f)

\* what the handlers do with such a call: some report as if nothing were
\* wrong, the others fail with the TypeError of the first method call on the
\* value, which never carries the operation name
C16_ShapeErrorIsBareTypeError ==
    \A i \in 1..Len(requests) :
        ( /\ Handled(i)
          /\ requests[i].method = "tools/call"
          /\ requests[i].name \in DeclaredNames
          /\ OffendingFields(requests[i]) # {} ) =>
            \/ IsReport(responses[i])
            \/ /\ responses[i].kind = "error"
               /\ responses[i].message[1] = "TypeError: "
               /\ ~Mentions(responses[i].message, requests[i].name)

C16_MissingCodeBaseHandled ==
    \E i \in HandledCalls("validate_monad_migration") :
        /\ Field(requests[i].args, "codeBase") = Undefined
        /\ responses[i].kind = "error"

-----------------------------------------------------------------------------
(* Two dispatches of migrate_contract_deployment on a started server *)

\* the schema-valid migrate_contract_deployment calls
DeploymentCalls ==
    {CallRequest("migrate_contract_deployment", a) :
        a \in ValidArgs(DescriptorOf("migrate_contract_deployment"))}

\* the started server with two such requests received
InitPair ==
    /\ pc = "running"
    /\ instances = NewToolInstances
    /\ tools = RegistryAfter(NewToolInstances, SkipEmpty(NewToolInstances, <<1, 1>>), <<>>)
    /\ regPos = <<Len(NewToolInstances) + 1, 1>>
    /\ overwrites = 0
    /\ handlers = {"tools/list", "tools/call"}
    /\ connected = TRUE
    /\ clock = 2
    /\ \E first, second \in DeploymentCalls : requests = <<first, second>>
    /\ status = <<"pending", "pending">>
    /\ responses = <<NoResponse, NoResponse>>
    /\ executed = <<NoCall, NoCall>>
    /\ NoNonceManager

SpecPair == InitPair /\ [][NextDispatch]_vars

\* the level a migrate_contract_deployment request asks for
LevelOf(req) == FieldOr(req.args, "optimizationLevel", StrVal(<<"basic">>))

\* two requests for the same code and contract type
SameContract(a, b) ==
    /\ Field(a.args, "originalCode") = Field(b.args, "originalCode")
    /\ Field(a.args, "contractType") = Field(b.args, "contractType")

\* C17: optimizationLevel (basic, advanced, aggressive; basic when omitted)
\* selects what migrate_contract_deployment applies: for the same originalCode
\* and contractType the reports for two different levels differ, and the
\* report for an omitted level is the report for "basic".
C17_LevelSelectsReport ==
    \A i, j \in HandledCalls("migrate_contract_deployment") :
        SameContract(requests[i], requests[j]) =>
            /\ IsReport(responses[i])
            /\ LevelOf(requests[i]) # LevelOf(requests[j]) => responses[i] # responses[j]
            /\ LevelOf(requests[i]) = LevelOf(requests[j]) => responses[i] = responses[j]

\* what the handler does: the level is read and never used, the report is
\* fixed by originalCode and contractType alone
C17_LevelIgnored ==
    \A i, j \in HandledCalls("migrate_contract_deployment") :
        SameContract(requests[i], requests[j]) => responses[i] = responses[j]

C17_TwoLevelsHandled ==
    \E i, j \in HandledCalls("migrate_contract_deployment") :
        /\ SameContract(requests[i], requests[j])
        /\ LevelOf(requests[i]) = StrVal(<<"basic">>)
        /\ LevelOf(requests[j]) = StrVal(<<"aggressive">>)
        /\ IsReport(responses[i])
        /\ IsReport(responses[j])

-----------------------------------------------------------------------------
(* The size of the registry *)

\* the names the registry holds and the modules that own them
RegisteredNames == {tools[e].key : e \in 1..Len(tools)}
OwningModules == {tools[e].value : e \in 1..Len(tools)}

\* the names registry entries give to module k
NamesOwnedBy(k) == {tools[e].key : e \in {x \in 1..Len(tools) : tools[x].value = k}}

-----------------------------------------------------------------------------
(* The static RPC values *)

HexDigits == "0123456789abcdef"

IsHexDigit(c) == \E d \in 0..15 : SubSeq(HexDigits, d + 1, d + 1) = c
HexDigitValue(c) == CHOOSE d \in 0..15 : SubSeq(HexDigits, d + 1, d + 1) = c

RECURSIVE HexValue(_)
\* the number a string of hexadecimal digits denotes
HexValue(digits) ==
    IF Len(digits) = 0 THEN BigInt(0)
    ELSE BigAdd(BigMul(HexValue(SubSeq(digits, 1, Len(digits) - 1)), BigInt(16)),
                BigInt(HexDigitValue(SubSeq(digits, Len(digits), Len(digits)))))

\* s is the hexadecimal encoding of the number n: "0x", then the digits of n
\* to base 16, the first of them not zero unless n is zero
IsHexEncodingOf(s, n) ==
    /\ Len(s) > 2
    /\ SubSeq(s, 1, 2) = "0x"
    /\ \A k \in 3..Len(s) : IsHexDigit(SubSeq(s, k, k))
    /\ Len(s) > 3 => SubSeq(s, 3, 3) # "0"
    /\ BigToString(HexValue(SubSeq(s, 3, Len(s)))) = BigToString(n)

\* the parts of the text that directly follow the part `before`
ShownAfter(text, before) == {text[k + 1] : k \in {x \in 1..(Len(text) - 1) : text[x] = before}}

\* the static values a migrate_web3_config report emits
EmittedChainId(text) == ShownAfter(text, "\",\n    chainId: \"")
EmittedGasPrice(text) == ShownAfter(text, "\", ... staticValues: {\n    gasPrice: \"")
EmittedPriorityFee(text) == ShownAfter(text, "\",\n    maxPriorityFeePerGas: \"")

\* C19: the static chainId value that migrate_web3_config emits,
\* STATIC_RPC_RESPONSES.eth_chainId, is the hexadecimal encoding of the
\* configured chain id 10143.
C19_StaticChainIdEncodesChainId ==
    /\ TESTNET.chainId = 10143
    /\ \A i \in HandledCalls("migrate_web3_config") :
          IsReport(responses[i]) =>
              /\ EmittedChainId(TextOf(responses[i])) = {STATIC_RPC_RESPONSES.eth_chainId}
              /\ \A s \in EmittedChainId(TextOf(responses[i])) :
                    IsHexEncodingOf(s, BigInt(TESTNET.chainId))

\* what is emitted: "0x27a7", the encoding of 10151
C19_StaticChainIdEncodes10151 ==
    \A i \in HandledCalls("migrate_web3_config") :
        IsReport(responses[i]) =>
            /\ EmittedChainId(TextOf(responses[i])) = {"0x27a7"}
            /\ IsHexEncodingOf("0x27a7", BigInt(10151))
            /\ IsHexEncodingOf("0x279f", BigInt(TESTNET.chainId))

C19_StaticChainIdEmitted ==
    \E i \in HandledCalls("migrate_web3_config") :
        /\ IsReport(responses[i])
        /\ EmittedChainId(TextOf(responses[i])) # {}

\* C20: the static gasPrice value that migrate_web3_config emits,
\* STATIC_RPC_RESPONSES.eth_gasPrice, is the hexadecimal encoding of the
\* configured default gas price 52 * 10^9 wei (base fee plus priority fee).
C20_StaticGasPriceEncodesDefault ==
    /\ BigToString(GAS_CONFIG.defaultGasPrice) = "52000000000"
    /\ \A i \in HandledCalls("migrate_web3_config") :
          IsReport(responses[i]) =>
              /\ EmittedGasPrice(TextOf(responses[i])) = {STATIC_RPC_RESPONSES.eth_gasPrice}
              /\ \A s \in EmittedGasPrice(TextOf(responses[i])) :
                    IsHexEncodingOf(s, GAS_CONFIG.defaultGasPrice)

\* what is emitted: "0xc1dcd6500", the encoding of 52039607552, next to a
\* priority fee that is the encoding of the configured 2 * 10^9
C20_StaticGasPriceEncodesOther ==
    \A i \in HandledCalls("migrate_web3_config") :
        IsReport(responses[i]) =>
            /\ EmittedGasPrice(TextOf(responses[i])) = {"0xc1dcd6500"}
            /\ BigToString(HexValue("c1dcd6500")) = "52039607552"
            /\ IsHexEncodingOf("0xc1b710800", GAS_CONFIG.defaultGasPrice)
            /\ \A s \in EmittedPriorityFee(TextOf(responses[i])) :
                  IsHexEncodingOf(s, GAS_CONFIG.maxPriorityFeePerGas)
            /\ EmittedPriorityFee(TextOf(responses[i])) # {}

C20_StaticGasPriceEmitted ==
    \E i \in HandledCalls("migrate_web3_config") :
        /\ IsReport(responses[i])
        /\ EmittedGasPrice(TextOf(responses[i])) # {}

-----------------------------------------------------------------------------
(* The gas analysis *)

\* the pattern of each check of the gas report
GasPatternOf(name) ==
    CASE name = "Hardcoded Gas Values" -> "gasPrice.*52.*10\\*\\*9|gasPrice.*52000000000"
      [] name = "Explicit Gas Limits" -> "gasLimit.*\\d+"
      [] name = "No Gas Estimation" -> "estimateGas"
      [] name = "EIP-1559 Support" -> "maxFeePerGas|maxPriorityFeePerGas"
      [] name = "Batch Operations" -> "batch|multicall/i"

\* the checks of importance high
HighPriorityChecks == {"Hardcoded Gas Values", "Explicit Gas Limits", "Batch Operations"}

\* the handled check_gas_optimization requests whose code is a string
StringCodeChecks ==
    {i \in HandledCalls("check_gas_optimization") : Field(requests[i].args, "code").t = "string"}

\* C21: in check_gas_optimization "No Gas Estimation" passes iff its pattern
\* does not occur in the code and each of the other four passes iff its pattern
\* occurs; the tally shown is the number of passed checks among the three of
\* importance high, out of 3, whatever the two medium checks give.
C21_FixedPolarityAndHighTally ==
    \A i \in StringCodeChecks :
        /\ IsReport(responses[i])
        /\ LET text == TextOf(responses[i])
               code == Field(requests[i].args, "code").v
               passed == MarkedPassed(text, GasCheckNames)
               failed == MarkedFailed(text, GasCheckNames)
           IN  /\ passed \cup failed = GasCheckNames
               /\ passed \cap failed = {}
               /\ \A n \in GasCheckNames :
                     n \in passed <=>
                        IF n = "No Gas Estimation" THEN ~RegexTest(GasPatternOf(n), code)
                        ELSE RegexTest(GasPatternOf(n), code)
               /\ ShownNumber(text, "### High Priority Optimizations: ", "/", 0, 5)
                    = {Cardinality(passed \cap HighPriorityChecks)}
               /\ Includes(text, <<"/", "3", " (tick)">>)

C21_MediumPassedHighFailed ==
    \E i \in StringCodeChecks :
        LET text == TextOf(responses[i])
        IN  /\ MarkedPassed(text, GasCheckNames) = {"No Gas Estimation", "EIP-1559 Support"}
            /\ Includes(text, <<"### High Priority Optimizations: ", "0", "/", "3">>)

-----------------------------------------------------------------------------
(* The validation report *)

\* the handled validate_monad_migration requests whose codeBase is a string
StringCodeBaseValidations ==
    {i \in HandledCalls("validate_monad_migration") :
        Field(requests[i].args, "codeBase").t = "string"}

\* what the claim says each check of the validation report depends on
MarkersPresent(name, codeBase) ==
    CASE name = "Network Configuration" -> Contains(codeBase, "10143")
      [] name = "Gas Price Optimization" ->
           \/ Contains(codeBase, "52000000000")
           \/ ValIncludes(codeBase, <<"52", "*", "10**9">>)
      [] name = "Multicall Integration" ->
           Contains(codeBase, "multicall") \/ Contains(codeBase, "Multicall3")
      [] name = "Concurrent Processing" -> Contains(codeBase, "Promise.all")
      [] name = "Gas Limit Management" ->
           Contains(codeBase, "gasLimit") /\ ~Contains(codeBase, "estimateGas")

\* C22: in validate_monad_migration "Gas Limit Management" passes iff codeBase
\* contains "gasLimit" and does not contain "estimateGas", the other four
\* checks pass iff their markers are present; every codeBase that contains
\* "estimateGas" scores at most 80.
C22_EstimateGasCapsScore ==
    \A i \in StringCodeBaseValidations :
        /\ IsReport(responses[i])
        /\ LET text == TextOf(responses[i])
               codeBase == Field(requests[i].args, "codeBase")
               passed == MarkedPassed(text, ValidationCheckNames)
           IN  /\ \A n \in ValidationCheckNames :
                     n \in passed <=> MarkersPresent(n, codeBase)
               /\ Contains(codeBase, "estimateGas") =>
                     /\ "Gas Limit Management" \notin passed
                     /\ ~Includes(text, <<"### Migration Score: ", "100", "% (">>)
                     /\ \E score \in {"0", "20", "40", "60", "80"} :
                           Includes(text, <<"### Migration Score: ", score, "% (">>)

C22_EstimateGasScoresEighty ==
    \E i \in StringCodeBaseValidations :
        /\ Contains(Field(requests[i].args, "codeBase"), "estimateGas")
        /\ Contains(Field(requests[i].args, "codeBase"), "gasLimit")
        /\ Includes(TextOf(responses[i]), <<"### Migration Score: ", "80", "% (">>)


\* the five checks of the validation report in the order of the report
ValidationCheckOrder ==
    <<"Network Configuration", "Gas Price Optimization", "Multicall Integration",
      "Concurrent Processing", "Gas Limit Management">>

\* the recommendation that belongs to each check
RecommendationFor(name) ==
    CASE name = "Network Configuration" ->
           "Update network configuration to use Monad testnet (Chain ID: 10143)"
      [] name = "Gas Price Optimization" ->
           "Replace dynamic gas price calls with hardcoded value (52 gwei)"
      [] name = "Multicall Integration" -> "Implement Multicall3 for batching contract reads"
      [] name = "Concurrent Processing" ->
           "Add concurrent processing with Promise.all for better performance"
      [] name = "Gas Limit Management" -> "Use explicit gas limits instead of gas estimation"

\* the list items of the report, in order
ListedItems(text) ==
    LET at == SelectSeq([k \in 1..Len(text) |-> k], LAMBDA k : text[k] = "- ")
    IN  [n \in 1..Len(at) |-> text[at[n] + 1]]

AllPassedMessage == "All checks passed! Your migration follows Monad best practices."

\* C23: in every validate_monad_migration report the recommendations are
\* those of the failed checks, in check order, so there are 5 minus passedCount
\* of them, and the 'All checks passed' message appears iff the score is 100.
C23_RecommendationsMirrorFailures ==
    \A i \in StringCodeBaseValidations :
        LET text == TextOf(responses[i])
            failed == SelectSeq(ValidationCheckOrder,
                                LAMBDA n : n \in MarkedFailed(text, ValidationCheckNames))
            p == Cardinality(MarkedPassed(text, ValidationCheckNames))
        IN  /\ ListedItems(text) = [k \in 1..Len(failed) |-> RecommendationFor(failed[k])]
            /\ Len(ListedItems(text)) = 5 - p
            /\ Includes(text, <<"% (", ToString(p), "/", "5", " checks passed)">>)
            /\ Mentions(text, AllPassedMessage)
                 <=> Includes(text, <<"### Migration Score: ", "100", "% (">>)

C23_ThreeRecommendationsListed ==
    \E i \in StringCodeBaseValidations :
        /\ Len(ListedItems(TextOf(responses[i]))) = 3
        /\ ListedItems(TextOf(responses[i]))[1] = RecommendationFor("Gas Price Optimization")
        /\ ~Mentions(TextOf(responses[i]), AllPassedMessage)

-----------------------------------------------------------------------------
(* The deployment script *)

\* the parts of the deployment script that belong to CreateX
CreateXEntry == "createX: \""
CreateXBranch == "\n  // === MONAD OPTIMIZATION: CreateX Deployment (Deterministic) ==="
CreateXUse ==
    "\n  const createXContract = new ethers.Contract(\n    MONAD_DEPLOYMENT_CONFIG.createX,\n    CREATE_X_ABI,\n    signer\n  );"
CreateXAbi == "\n// CreateX ABI (minimal)\nconst CREATE_X_ABI = [ ... ];\n"
CreateXMethod == "deploymentMethod: \"CreateX\","
StandardBranch == "\n  // === MONAD OPTIMIZATION: Standard deployment with explicit gas ==="
StandardMethod == "deploymentMethod: \"Standard\","

\* the request asks for CreateX
AsksCreateX(req) == Field(req.args, "useCreateX") = BoolVal(TRUE)

\* C24: in the report of generate_monad_deployment_script the createX entry of
\* MONAD_DEPLOYMENT_CONFIG, the CreateX branch, the CREATE_X_ABI definition and
\* deploymentMethod "CreateX" all appear iff useCreateX is true; otherwise,
\* and when useCreateX is omitted, the standard branch and deploymentMethod
\* "Standard" appear; createX and CREATE_X_ABI are never used undefined.
C24_CreateXAllOrNothing ==
    \A i \in HandledCalls("generate_monad_deployment_script") :
        IsReport(responses[i]) =>
            LET text == TextOf(responses[i])
                u == AsksCreateX(requests[i])
            IN  /\ Mentions(text, CreateXEntry) <=> u
                /\ Mentions(text, CreateXBranch) <=> u
                /\ Mentions(text, CreateXUse) <=> u
                /\ Mentions(text, CreateXAbi) <=> u
                /\ Mentions(text, CreateXMethod) <=> u
                /\ Mentions(text, StandardBranch) <=> ~u
                /\ Mentions(text, StandardMethod) <=> ~u
                /\ Mentions(text, CreateXUse) =>
                      Mentions(text, CreateXEntry) /\ Mentions(text, CreateXAbi)

C24_CreateXScriptEmitted ==
    \E i \in HandledCalls("generate_monad_deployment_script") :
        /\ AsksCreateX(requests[i])
        /\ Mentions(TextOf(responses[i]), CreateXAbi)
        /\ Mentions(TextOf(responses[i]), CreateXMethod)
        /\ ~Mentions(TextOf(responses[i]), StandardMethod)

-----------------------------------------------------------------------------
(* Lists rendered from the events array *)

\* the text of an event before its first '('
NameBeforeParen(event) ==
    IF \E k \in 1..Len(event) : event[k] = "("
    THEN SubSeq(event, 1, (CHOOSE k \in 1..Len(event) :
                              event[k] = "(" /\ \A m \in 1..(k - 1) : event[m] # "(") - 1)
    ELSE event

\* the places of the text where the part `marker` stands, in order
PlacesOf(text, marker) == SelectSeq([k \in 1..Len(text) |-> k], LAMBDA k : text[k] = marker)

\* the text has `words` directly after place k
Follows(text, k, words) ==
    /\ k + Len(words) <= Len(text)
    /\ SubSeq(text, k + 1, k + Len(words)) = words

\* the text has one `marker` per item, in order, the n-th followed by what
\* `shown` makes of the n-th item
RendersEach(text, marker, items, shown(_)) ==
    LET at == PlacesOf(text, marker)
    IN  /\ Len(at) = Len(items)
        /\ \A n \in 1..Len(items) : Follows(text, at[n], shown(items[n]))

\* the events array of a handled request
EventsOf(i) == Field(requests[i].args, "events").v

\* C25: for every events array setup_envio_indexer emits one '- event:' line
\* and one handler block per element and configure_goldsky_subgraph one entity
\* line and one eventHandlers entry per element, in input order, handlers and
\* entities named by the text of the event before its first '('; an empty
\* array yields no such lines and still a report.
C25_ListsKeepCountAndOrder ==
    /\ \A i \in HandledCalls("setup_envio_indexer") :
          Field(requests[i].args, "events").t = "array" =>
              /\ IsReport(responses[i])
              /\ RendersEach(TextOf(responses[i]), "    - event: ", EventsOf(i),
                             LAMBDA e : e)
              /\ RendersEach(TextOf(responses[i]), "\n// Handler for ", EventsOf(i),
                             LAMBDA e : NameBeforeParen(e) \o <<"\nMyContract.">>
                                          \o NameBeforeParen(e))
    /\ \A i \in HandledCalls("configure_goldsky_subgraph") :
          Field(requests[i].args, "events").t = "array" =>
              /\ IsReport(responses[i])
              /\ RendersEach(TextOf(responses[i]), "        - ", EventsOf(i),
                             LAMBDA e : NameBeforeParen(e))
              /\ RendersEach(TextOf(responses[i]), "        - event: ", EventsOf(i),
                             LAMBDA e : e \o <<"\n          handler: handle">>
                                          \o NameBeforeParen(e))

C25_TwoEventsRendered ==
    \E i \in HandledCalls("configure_goldsky_subgraph") :
        /\ EventsOf(i) = << <<"Transfer", "(", "x">>, <<"x">> >>
        /\ Len(PlacesOf(TextOf(responses[i]), "        - event: ")) = 2
        /\ Follows(TextOf(responses[i]), PlacesOf(TextOf(responses[i]), "        - ")[1],
                   <<"Transfer">>)

-----------------------------------------------------------------------------
(* One dispatch of an operation that embeds the caller's code as comments *)

\* the operations that embed their code argument, and the argument
CommentingOperations ==
    {"migrate_web3_config", "optimize_rpc_calls", "optimize_gas_estimation",
     "optimize_concurrent_calls"}
CommentedField(name) ==
    CASE name = "migrate_web3_config" -> "originalConfig"
      [] name \in {"optimize_rpc_calls", "optimize_gas_estimation"} -> "code"
      [] name = "optimize_concurrent_calls" -> "originalCode"

\* code texts: lines that are empty, that end the text, that start with the
\* comment prefix themselves
CommentTexts == WordSeqs({"x", "\n", "// "}, MaxCodeLen)

CommentCalls ==
    {CallRequest(op, WithField(TypicalArgs(DescriptorOf(op)), CommentedField(op), StrVal(c))) :
        op \in CommentingOperations, c \in CommentTexts}

\* the started server with one such request received
InitComment ==
    /\ pc = "running"
    /\ instances = NewToolInstances
    /\ tools = RegistryAfter(NewToolInstances, SkipEmpty(NewToolInstances, <<1, 1>>), <<>>)
    /\ regPos = <<Len(NewToolInstances) + 1, 1>>
    /\ overwrites = 0
    /\ handlers = {"tools/list", "tools/call"}
    /\ connected = TRUE
    /\ clock = 1
    /\ \E req \in CommentCalls : requests = <<req>>
    /\ status = <<"pending">>
    /\ responses = <<NoResponse>>
    /\ executed = <<NoCall>>
    /\ NoNonceManager

SpecComment == InitComment /\ [][NextDispatch]_vars

\* the comment block of a report: what stands between the heading of the
\* code section (fence, title, line break) and the blank line that ends it
BlockOf(text) ==
    LET h == CHOOSE k \in 1..Len(text) :
                 text[k] = "'''typescript" /\ \A m \in 1..(k - 1) : text[m] # "'''typescript"
        e == CHOOSE k \in (h + 4)..Len(text) :
                 text[k] = "\n\n" /\ \A m \in (h + 4)..(k - 1) : text[m] # "\n\n"
    IN  SubSeq(text, h + 4, e - 1)

RECURSIVE UnComment(_)
\* the block with the prefix "// " taken off the start of every line; a block
\* with a line that lacks the prefix gives no text at all
UnComment(block) ==
    IF block = <<>> \/ Head(block) # "// " THEN <<"(no prefix)">>
    ELSE LET rest == Tail(block)
         IN  IF \A k \in 1..Len(rest) : rest[k] # "\n" THEN rest
             ELSE LET k == CHOOSE n \in 1..Len(rest) :
                               rest[n] = "\n" /\ \A m \in 1..(n - 1) : rest[m] # "\n"
                  IN  SubSeq(rest, 1, k) \o UnComment(SubSeq(rest, k + 1, Len(rest)))

\* the number of line breaks in a text
LineBreaks(s) == Cardinality({k \in 1..Len(s) : s[k] = "\n"})

\* the code a handled request carries in its commented field
CodeOf(i) == Field(requests[i].args, CommentedField(requests[i].name)).v

\* C26: migrate_web3_config, optimize_rpc_calls, optimize_gas_estimation and
\* optimize_concurrent_calls embed the caller's code as a comment block with
\* every input line prefixed with "// ", order and line count kept: taking
\* the prefix off the block gives back the input, the empty string included.
C26_CommentBlockRoundTrip ==
    \A i \in 1..Len(requests) :
        (Handled(i) /\ requests[i].name \in CommentingOperations) =>
            /\ IsReport(responses[i])
            /\ UnComment(BlockOf(TextOf(responses[i]))) = CodeOf(i)
            /\ LineBreaks(BlockOf(TextOf(responses[i]))) = LineBreaks(CodeOf(i))
            /\ Len(PlacesOf(BlockOf(TextOf(responses[i])), "// "))
                 >= LineBreaks(CodeOf(i)) + 1

C26_BlankLinesCommented ==
    \E i \in HandledCalls("optimize_gas_estimation") :
        /\ CodeOf(i) = <<"\n", "// ", "\n">>
        /\ BlockOf(TextOf(responses[i])) = <<"// ", "\n", "// ", "// ", "\n", "// ">>

-----------------------------------------------------------------------------
(* The transaction parameters handed out *)

\* C27: getOptimizedTxParams returns the caller's gasLimit for every value
\* that is supplied, 0 included, and the standard transfer gas 21000 only
\* when gasLimit is omitted; the other fields are the fixed gas configuration,
\* maxFeePerGas = base fee + priority fee, type 2.
C27_SuppliedGasLimitReturned ==
    \A i \in HandledStatic("getOptimizedTxParams") :
        LET gasLimit == requests[i].args[1]
            params == responses[i].value
        IN  /\ responses[i].kind = "value"
            /\ gasLimit # Undefined => params.gasLimit = gasLimit.v
            /\ gasLimit = Undefined => params.gasLimit = BigInt(21000)
            /\ params.gasPrice = BigMul(BigInt(52), BigInt(10 ^ 9))
            /\ params.maxFeePerGas = BigMul(BigInt(52), BigInt(10 ^ 9))
            /\ params.maxPriorityFeePerGas = BigMul(BigInt(2), BigInt(10 ^ 9))
            /\ params.type = 2

\* what the code does: a supplied gasLimit other than 0 is returned, and both
\* 0 and an omitted gasLimit give 21000
C27_ZeroGasLimitReplaced ==
    \A i \in HandledStatic("getOptimizedTxParams") :
        LET gasLimit == requests[i].args[1]
            params == responses[i].value
        IN  /\ responses[i].kind = "value"
            /\ (gasLimit # Undefined /\ gasLimit.v # BigInt(0)) => params.gasLimit = gasLimit.v
            /\ (gasLimit = Undefined \/ gasLimit = BigIntVal(BigInt(0)))
                 => params.gasLimit = BigInt(21000)
            /\ params.gasPrice = BigMul(BigInt(52), BigInt(10 ^ 9))
            /\ params.maxFeePerGas = BigMul(BigInt(52), BigInt(10 ^ 9))
            /\ params.maxPriorityFeePerGas = BigMul(BigInt(2), BigInt(10 ^ 9))
            /\ params.type = 2

-----------------------------------------------------------------------------
(* The network record handed out *)

\* C28: getNetworkConfig returns the TESTNET record when called with
\* 'testnet' or with no argument and fails with 'Mainnet configuration not yet
\* available' for 'mainnet'; the record returned is whole and is no other
\* record, and the configuration read by the other calls is as it was.
C28_TestnetOrMainnetError ==
    /\ \A i \in HandledStatic("getNetworkConfig") :
          LET environment == requests[i].args[1]
          IN  /\ environment \in {Undefined, StrVal(<<"testnet">>)} =>
                    /\ responses[i].kind = "value"
                    /\ responses[i].value
                         = [chainId     |-> 10143,
                            name        |-> "Monad Testnet",
                            currency    |-> "MON",
                            rpcUrl      |-> "https://testnet-rpc.monad.xyz",
                            explorerUrl |-> "https://testnet.monadexplorer.com",
                            faucetUrl   |-> "https://faucet.monad.xyz",
                            testnetHub  |-> "https://testnet.monad.xyz"]
              /\ environment = StrVal(<<"mainnet">>) =>
                    /\ responses[i].kind = "error"
                    /\ responses[i].message = <<"Mainnet configuration not yet available">>
    /\ \A i \in HandledStatic("getOptimizedTxParams") :
          responses[i] = Returned(getOptimizedTxParams(requests[i].args[1]))
    /\ \A i \in 1..Len(requests) :
          ~Handled(i) => responses[i] = NoResponse /\ executed[i] = NoCall

C28_MainnetRefusedParamsServed ==
    \E i \in HandledStatic("getNetworkConfig"), k \in HandledStatic("getOptimizedTxParams") :
        /\ requests[i].args[1] = StrVal(<<"mainnet">>)
        /\ responses[i].kind = "error"
        /\ responses[k].kind = "value"

-----------------------------------------------------------------------------
(* Two dispatches of an operation whose report is a fixed text *)

\* the operations whose handlers read their arguments and never use them
FixedReportOperations ==
    {"add_monad_gas_optimizations", "implement_batch_calls", "implement_gas_limit_strategy"}

\* argument objects for such an operation: the schema-valid ones, those with
\* a required property missing or of another type, and the empty object
FixedReportArgs(name) ==
    ValidArgs(DescriptorOf(name)) \cup MalformedArgs(DescriptorOf(name)) \cup {<<>>}

\* the started server with two requests for one such operation received
InitFixed ==
    /\ pc = "running"
    /\ instances = NewToolInstances
    /\ tools = RegistryAfter(NewToolInstances, SkipEmpty(NewToolInstances, <<1, 1>>), <<>>)
    /\ regPos = <<Len(NewToolInstances) + 1, 1>>
    /\ overwrites = 0
    /\ handlers = {"tools/list", "tools/call"}
    /\ connected = TRUE
    /\ clock = 2
    /\ \E name \in FixedReportOperations :
          \E first, second \in FixedReportArgs(name) :
              requests = <<CallRequest(name, first), CallRequest(name, second)>>
    /\ status = <<"pending", "pending">>
    /\ responses = <<NoResponse, NoResponse>>
    /\ executed = <<NoCall, NoCall>>
    /\ NoNonceManager

SpecFixed == InitFixed /\ [][NextDispatch]_vars

\* C29: the reports of add_monad_gas_optimizations, implement_batch_calls and
\* implement_gas_limit_strategy do not depend on their arguments: two calls of
\* one of these operations, whatever their argument objects (different
\* contractCode, functions or transactionTypes, a required field missing),
\* return the same text.
C29_ReportIgnoresArguments ==
    \A i, k \in 1..Len(requests) :
        (/\ Handled(i) /\ Handled(k)
         /\ requests[i].name \in FixedReportOperations
         /\ requests[k].name = requests[i].name) =>
            /\ IsReport(responses[i])
            /\ IsReport(responses[k])
            /\ TextOf(responses[i]) = TextOf(responses[k])

C29_MissingAndPresentAlike ==
    \E i, k \in HandledCalls("implement_batch_calls") :
        /\ Field(requests[i].args, "functions") = Undefined
        /\ Field(requests[k].args, "functions").t = "array"
        /\ Field(requests[k].args, "functions").v # <<>>
        /\ TextOf(responses[i]) = TextOf(responses[k])

-----------------------------------------------------------------------------
(* The MonadNonceManager that optimize_nonce_management emits, run by a     *)
(* program that sends transactions concurrently                             *)

\* number of getNextNonce calls made in one run
MaxCalls == 3

\* the addresses the calls are made for
Addresses == {"0xA", "0xB"}

\* a Map from addresses: a function on the addresses that have an entry
MapWith(m, address, value) ==
    [a \in DOMAIN m \cup {address} |-> IF a = address THEN value ELSE m[a]]

RECURSIVE NextFree(_, _)
\* let nextNonce = currentNonce; while (pending.has(nextNonce)) nextNonce++
NextFree(pending, nextNonce) ==
    IF nextNonce \in pending THEN NextFree(pending, nextNonce + 1) ELSE nextNonce

\* pendingTransactions.get(address) || new Set()
PendingOf(pendings, address) ==
    IF address \in DOMAIN pendings THEN pendings[address] ELSE {}

\* getNextNonce from the read of localNonces to its return statement, with no
\* suspension in between: the nonce returned and the two maps it leaves
TakeNonce(nonces, pendings, address) ==
    LET currentNonce == nonces[address]
        nextNonce == NextFree(PendingOf(pendings, address), currentNonce)
    IN  [nonce   |-> nextNonce,
         pending |-> MapWith(pendings, address, PendingOf(pendings, address) \cup {nextNonce}),
         local   |-> MapWith(nonces, address,
                             IF currentNonce > nextNonce + 1 THEN currentNonce
                             ELSE nextNonce + 1)]

\* a getNextNonce call: where it is, the chain nonce it was answered with and
\* the nonce it returned (-1 while it has none)
NonceCall(address, at, chainNonce, nonce) ==
    [address |-> address, at |-> at, chainNonce |-> chainNonce, nonce |-> nonce]

\* new MonadNonceManager(provider), no transaction sent from the addresses yet
InitNonce ==
    /\ pc = "running"
    /\ instances = NewToolInstances
    /\ tools = RegistryAfter(NewToolInstances, SkipEmpty(NewToolInstances, <<1, 1>>), <<>>)
    /\ regPos = <<Len(NewToolInstances) + 1, 1>>
    /\ overwrites = 0
    /\ handlers = {"tools/list", "tools/call"}
    /\ connected = TRUE
    /\ clock = 0
    /\ requests = <<>>
    /\ status = <<>>
    /\ responses = <<>>
    /\ executed = <<>>
    /\ localNonces = <<>>
    /\ pendingTransactions = <<>>
    /\ chainNonces = [a \in Addresses |-> 0]
    /\ nonceCalls = <<>>

server == <<pc, instances, tools, regPos, overwrites, handlers, connected, clock,
            requests, status, responses, executed>>

\* getNextNonce(address) is called with the address cached: it runs to its
\* return statement without suspending
GetNextNonceCached(address) ==
    /\ Len(nonceCalls) < MaxCalls
    /\ address \in DOMAIN localNonces
    /\ LET taken == TakeNonce(localNonces, pendingTransactions, address)
       IN  /\ localNonces' = taken.local
           /\ pendingTransactions' = taken.pending
           /\ nonceCalls' = Append(nonceCalls, NonceCall(address, "returned", -1, taken.nonce))
    /\ UNCHANGED <<server, chainNonces>>

\* getNextNonce(address) is called with no entry for the address: it asks the
\* provider for the transaction count and suspends
GetNextNonceAwait(address) ==
    /\ Len(nonceCalls) < MaxCalls
    /\ address \notin DOMAIN localNonces
    /\ nonceCalls' = Append(nonceCalls, NonceCall(address, "awaiting", -1, -1))
    /\ UNCHANGED <<server, localNonces, pendingTransactions, chainNonces>>

\* the provider answers call i's getTransactionCount with the count it reads
GetTransactionCount(i) ==
    /\ i \in 1..Len(nonceCalls)
    /\ nonceCalls[i].at = "awaiting"
    /\ nonceCalls' = [nonceCalls EXCEPT ![i].at = "answered",
                                        ![i].chainNonce = chainNonces[nonceCalls[i].address]]
    /\ UNCHANGED <<server, localNonces, pendingTransactions, chainNonces>>

\* call i resumes after its await: localNonces.set(address, chainNonce) and
\* the rest of getNextNonce
GetNextNonceResume(i) ==
    /\ i \in 1..Len(nonceCalls)
    /\ nonceCalls[i].at = "answered"
    /\ LET address == nonceCalls[i].address
           taken == TakeNonce(MapWith(localNonces, address, nonceCalls[i].chainNonce),
                              pendingTransactions, address)
       IN  /\ localNonces' = taken.local
           /\ pendingTransactions' = taken.pending
           /\ nonceCalls' = [nonceCalls EXCEPT ![i].at = "returned", ![i].nonce = taken.nonce]
    /\ UNCHANGED <<server, chainNonces>>

\* the transaction sent with call i's nonce is mined: the chain takes the
\* transaction whose nonce is the address's transaction count
Mined(i) ==
    /\ i \in 1..Len(nonceCalls)
    /\ nonceCalls[i].at = "returned"
    /\ nonceCalls[i].nonce = chainNonces[nonceCalls[i].address]
    /\ chainNonces' = [chainNonces EXCEPT ![nonceCalls[i].address] = @ + 1]
    /\ nonceCalls' = [nonceCalls EXCEPT ![i].at = "mined"]
    /\ UNCHANGED <<server, localNonces, pendingTransactions>>

\* confirmTransaction(address, nonce), called by the helper when the
\* transaction of call i is mined
ConfirmTransaction(i) ==
    /\ i \in 1..Len(nonceCalls)
    /\ nonceCalls[i].at = "mined"
    /\ LET address == nonceCalls[i].address
       IN  pendingTransactions' =
               IF address \in DOMAIN pendingTransactions
               THEN [pendingTransactions EXCEPT ![address] = @ \ {nonceCalls[i].nonce}]
               ELSE pendingTransactions
    /\ nonceCalls' = [nonceCalls EXCEPT ![i].at = "confirmed"]
    /\ UNCHANGED <<server, localNonces, chainNonces>>

NextNonce ==
    \/ \E address \in Addresses : GetNextNonceCached(address)
    \/ \E address \in Addresses : GetNextNonceAwait(address)
    \/ \E i \in 1..MaxCalls : GetTransactionCount(i)
    \/ \E i \in 1..MaxCalls : GetNextNonceResume(i)
    \/ \E i \in 1..MaxCalls : Mined(i)
    \/ \E i \in 1..MaxCalls : ConfirmTransaction(i)

SpecNonce == InitNonce /\ [][NextNonce]_vars

\* the calls that have returned a nonce
ReturnedNonceCalls ==
    {i \in 1..Len(nonceCalls) : nonceCalls[i].at \in {"returned", "mined", "confirmed"}}

\* C30: the emitted MonadNonceManager never hands out the same nonce twice
\* for one address: under any interleaving of concurrent getNextNonce calls
\* (each suspending at its chain-nonce read when the cache is empty) and
\* confirmTransaction calls, with no resetNonceCache, the nonces returned for
\* one address are pairwise distinct.
C30_NoncesPairwiseDistinct ==
    \A i, k \in ReturnedNonceCalls :
        (i # k /\ nonceCalls[i].address = nonceCalls[k].address) =>
            nonceCalls[i].nonce # nonceCalls[k].nonce

\* what holds: while no confirmation has run, the nonces returned for one
\* address are pairwise distinct
C30_DistinctWhileNoneConfirmed ==
    (\A i \in 1..Len(nonceCalls) : nonceCalls[i].at # "confirmed") =>
        \A i, k \in ReturnedNonceCalls :
            (i # k /\ nonceCalls[i].address = nonceCalls[k].address) =>
                nonceCalls[i].nonce # nonceCalls[k].nonce

=============================================================================
